---- MODULE Spec2Model ----
(***************************************************************************)
(* Verification model of the pre-decided air-combat engagement:            *)
(*   - the Outcome Generator  (utils/combatCalculations, latest version,   *)
(*     src/src/utils/dialogueGenerator.ts lines 287-537), and              *)
(*   - the real-time reconciling simulation (hooks/useBattleSimulation,    *)
(*     first definition, src/src/hooks/useBattleSimulation.ts 1-943).      *)
(* Probabilities are kept in per-mille, times in milliseconds.             *)
(***************************************************************************)
EXTENDS Integers, Sequences, FiniteSets, TLC

\* ------------------------------------------------------------------------
\* Bounds of the model
\* ------------------------------------------------------------------------
MaxAllied == 2
MaxEnemy == 3
FleeAllied == 3
MaxLoopEvents == 2
MaxShots == 2
MaxStaleTicks == 1
AimFromMs == 1000
ForcePeriodMs == 2000
ToleranceMs == 1000
StaleHorizonMs == 3600
ForcedLaunchDist == 400
LaunchMargin == 16
ReuseHorizonMs == 48
WreckFallMs == 5000

\* ------------------------------------------------------------------------
\* Constants of the Outcome Generator (per-mille for the probabilities)
\* ------------------------------------------------------------------------
GEN_BATTLE_DURATION == 30000
BASE_HIT_CHANCE == 500
AGILITY_HIT_MODIFIER == 5
BASE_KILL_CHANCE == 150
WEAPON_KILL_MODIFIER == 2
FLEE_THRESHOLD == 400
AGGRESSIVE_MODIFIER == 115
DEFENSIVE_MODIFIER == 100
DEFEAT_REWARD_PCT == 30
DEFAULT_PILOT_STAT == 50
KILL_DAMAGE == 100

\* ------------------------------------------------------------------------
\* Constants of the battle hook. The source gives times in seconds or milliseconds and
\* distances in world units; here times are milliseconds, distances tenths of a unit and
\* speeds tenths of a unit per second.
\* ------------------------------------------------------------------------
RESPAWN_TIME == 500005000
TRACER_LIFESPAN == 2000
FIRING_COOLDOWN == 3000
BURST_COUNT == 3
TRACERS_PER_BURST == 5
TIME_BETWEEN_TRACERS == 60
TIME_BETWEEN_BURSTS == 300
GREEN_TARGET_SWAP_TIME == 10
MISSILE_SPEED == 1000
MISSILE_LIFESPAN == 5000
MISSILE_PROXIMITY_DETONATION_RANGE == 100
FLARE_LIFESPAN == 3000
FLARES_TO_DEPLOY == 6
TIME_BETWEEN_FLARE_PAIRS == 200
WEAPON_RANGE_THRESHOLD == 600
BATTLE_DURATION == 30000
DISENGAGE_DELAY == 2000
DISENGAGE_DURATION == 5000
CINEMATIC_WINDOW == 3000
imminentEventWindow == 5000
DELTA_MS == 16
TICK_MS == 16
FORCED_LERP_PCT == 8

\* Values of Math.random() explored, in per-mille of [0, 1)
RandVals == {0, 999}
\* Values of Math.random() explored for the pacing interval of the exchange loop
IntervalRand == {999}

AlliedIds == <<"allied-0", "allied-1", "allied-2", "allied-3">>
EnemyIds == <<"enemy-0", "enemy-1", "enemy-2", "enemy-3", "enemy-4">>
NoId == ""

AlliedId(i) == AlliedIds[i + 1]
EnemyId(i) == EnemyIds[i + 1]

\* Rosters and missions the generator is run on
PilotedJet ==
  [weaponStrength |-> 10, speed |-> 5, agility |-> 5, hasPilot |-> TRUE,
   intelligence |-> 50, endurance |-> 50]

UnpilotedJet ==
  [weaponStrength |-> 10, speed |-> 5, agility |-> 5, hasPilot |-> FALSE,
   intelligence |-> 0, endurance |-> 0]

EnemyStatKinds ==
  { [weaponStrength |-> 20, speed |-> 20, agility |-> 20, intelligence |-> 10, endurance |-> 10] }

RewardKinds == { [credits |-> 105, researchPoints |-> 10, highScoreBonus |-> 7] }

\* rosters of piloted jets, and the same rosters with no pilot assigned to the last jet
Rosters ==
  { [i \in 1..n |-> PilotedJet] : n \in 0..MaxAllied }
  \cup { [i \in 1..n |-> IF i = n THEN UnpilotedJet ELSE PilotedJet] : n \in 1..MaxAllied }

Missions ==
  { [enemyCount |-> n, enemyStats |-> s, rewards |-> r] :
      n \in 0..MaxEnemy, s \in EnemyStatKinds, r \in RewardKinds }

Tactics == {"aggressive", "defensive"}

VARIABLES
  gPc,        \* position of calculateBattleOutcome: "loop", "done"
  gSquadron,  \* input roster
  gMission,   \* input mission
  gTactic,    \* input tactic
  gTime,      \* battleTime of generateBattleEvents
  gAllied,    \* alliedEntities (SimEntity list)
  gEnemy,     \* enemyEntities (SimEntity list)
  gEvents,    \* events pushed so far
  gGated,     \* candidate kills rejected by canKill in the last iteration: {<<timestamp, attacker, target>>}
  gOut        \* returned {events, results}, or the empty record before return

gvars == <<gPc, gSquadron, gMission, gTactic, gTime, gAllied, gEnemy, gEvents, gGated, gOut>>

VARIABLES
  battleState,    \* the hook's React state (NullBattle before initializeBattle)
  snapshot,       \* the battleState object captured by the running interval callback,
                  \* with the in-place mutations earlier ticks made to it
  now,            \* Date.now()
  respawnEnabled, \* the respawn flag passed to the hook
  scenario,       \* roster size, mission and pre-decided outcome of this battle
  fresh,          \* the effect has re-subscribed the interval for the current battleState
  shots,          \* weapon releases explored so far
  staleTicks,     \* interval callbacks that ran on an outdated snapshot so far
  killLog         \* per entity: how often the kill code set isWrecked on a live entity

bvars == <<battleState, snapshot, now, respawnEnabled, scenario, fresh, shots, staleTicks, killLog>>

VARIABLES
  hasAppliedRewards, \* CombatSimulator's state hasAppliedRewards
  effectDeps,        \* [battleState?.status, hasAppliedRewards] at the last run of the reward effect
  gameState,         \* what useGameState holds of resources, score, pilots and missions
  rewardCalls        \* per updater of useGameState: how often the reward effect called it

cvars == <<hasAppliedRewards, effectDeps, gameState, rewardCalls>>

vars == <<gvars, bvars, cvars>>

\* the updaters the reward effect calls
RewardUpdaters == {"updateResources", "updateHighScore", "updatePilots", "addCompletedMission"}

\* the game state when the simulator is entered
EnteredGameState ==
  [credits |-> 40, researchPoints |-> 5, highScore |-> 1200, missionsFlown |-> 3, completed |-> 2,
   lastCompletedTime |-> 0]

\* CombatSimulator after construction: useState(false), no effect has run
SimulatorMounted ==
  /\ hasAppliedRewards = FALSE
  /\ effectDeps = <<"mount", FALSE>>
  /\ gameState = EnteredGameState
  /\ rewardCalls = [f \in RewardUpdaters |-> 0]

\* ------------------------------------------------------------------------
\* Helpers
\* ------------------------------------------------------------------------
RECURSIVE SumSeq(_)
SumSeq(s) == IF s = <<>> THEN 0 ELSE Head(s) + SumSeq(Tail(s))

\* Math.floor(Math.random() * n) for a draw r in per-mille
RandIndex(r, n) == (r * n) \div 1000

\* insertion of e after every element whose timestamp is <= e.timestamp
RECURSIVE InsertByTimestamp(_, _)
InsertByTimestamp(e, s) ==
  IF s = <<>> THEN <<e>>
  ELSE IF Head(s).timestamp <= e.timestamp
       THEN <<Head(s)>> \o InsertByTimestamp(e, Tail(s))
       ELSE <<e>> \o s

RECURSIVE SortByTimestampFrom(_, _)
SortByTimestampFrom(acc, s) ==
  IF s = <<>> THEN acc
  ELSE SortByTimestampFrom(InsertByTimestamp(Head(s), acc), Tail(s))

\* mutant: the final sort is left out
SortByTimestamp_unsorted(s) == s

\* events.sort((a, b) => a.timestamp - b.timestamp): stable, ascending
SortByTimestamp(s) == SortByTimestampFrom(<<>>, s)

\* ------------------------------------------------------------------------
\* Power calculation
\* ------------------------------------------------------------------------
calculateSquadronPower(squadron) ==
  SumSeq([i \in 1..Len(squadron) |->
            IF ~squadron[i].hasPilot THEN 0
            ELSE squadron[i].weaponStrength + squadron[i].speed + squadron[i].agility
                 + squadron[i].intelligence + squadron[i].endurance])

calculateEnemyPower(mission) ==
  (mission.enemyStats.weaponStrength + mission.enemyStats.speed + mission.enemyStats.agility
   + mission.enemyStats.intelligence + mission.enemyStats.endurance) * mission.enemyCount

\* mutant: the aggressive tactic gets no bonus
tacticModifier_flat(tactic) == DEFENSIVE_MODIFIER

tacticModifier(tactic) == IF tactic = "aggressive" THEN AGGRESSIVE_MODIFIER ELSE DEFENSIVE_MODIFIER

\* mutant: a tie counts as a victory
alliedWinsOf_tieWins(squadron, mission, tactic) ==
  calculateSquadronPower(squadron) * tacticModifier(tactic) >= calculateEnemyPower(mission) * 100

\* adjustedAlliedPower > enemyPower, both sides scaled by 100
alliedWinsOf(squadron, mission, tactic) ==
  calculateSquadronPower(squadron) * tacticModifier(tactic) > calculateEnemyPower(mission) * 100

\* ------------------------------------------------------------------------
\* generateBattleEvents
\* ------------------------------------------------------------------------
MkAlliedEntities(squadron) ==
  [i \in 1..Len(squadron) |->
     [id |-> AlliedId(i - 1), team |-> "allied", isAlive |-> TRUE,
      weaponStrength |-> squadron[i].weaponStrength,
      speed |-> squadron[i].speed,
      agility |-> squadron[i].agility,
      intelligence |-> IF squadron[i].hasPilot THEN squadron[i].intelligence
                       ELSE DEFAULT_PILOT_STAT]]

MkEnemyEntities(mission) ==
  [i \in 1..mission.enemyCount |->
     [id |-> EnemyId(i - 1), team |-> "enemy", isAlive |-> TRUE,
      weaponStrength |-> mission.enemyStats.weaponStrength,
      speed |-> mission.enemyStats.speed,
      agility |-> mission.enemyStats.agility,
      intelligence |-> mission.enemyStats.intelligence]]

\* mutant: the pools are not filtered by isAlive
IsAliveEntity_any(e) == TRUE

IsAliveEntity(e) == e.isAlive

Initiative(jets) == SumSeq([i \in 1..Len(jets) |-> jets[i].speed + jets[i].intelligence])

\* Math.random() < alliedInitiative / totalInitiative (0/0 is NaN: false)
isAlliedAttackOf(r, alliedInitiative, enemyInitiative) ==
  /\ alliedInitiative + enemyInitiative > 0
  /\ r * (alliedInitiative + enemyInitiative) < alliedInitiative * 1000

hitChanceOf(attacker, target) ==
  BASE_HIT_CHANCE + (attacker.intelligence - target.agility) * AGILITY_HIT_MODIFIER

killChanceOf(attacker) == BASE_KILL_CHANCE + attacker.weaponStrength * WEAPON_KILL_MODIFIER

\* Math.round(10 + weaponStrength / 10)
hitDamageOf(attacker) == (100 + attacker.weaponStrength + 5) \div 10

\* mutant: every candidate kill is allowed
canKillOf_ungated(isAlliedAttack, alliedWins, defenders) == TRUE

canKillOf(isAlliedAttack, alliedWins, defenders) ==
  \/ (isAlliedAttack /\ alliedWins)
  \/ (~isAlliedAttack /\ ~alliedWins)
  \/ Len(defenders) > 1

\* mutant: a destroyed entity stays in the alive pools
MarkDead_forgotten(entities, id) == entities

MarkDead(entities, id) ==
  [i \in 1..Len(entities) |->
     IF entities[i].id = id THEN [entities[i] EXCEPT !.isAlive = FALSE] ELSE entities[i]]

Event(ts, type, attackerId, targetId, damage) ==
  [timestamp |-> ts, type |-> type, attackerId |-> attackerId, targetId |-> targetId,
   damage |-> damage]

\* mutant: the remaining enemies flee whoever wins and however many remain
EscapeEvents_unguarded(remaining, alliedWins, enemyCount, rFlee) ==
  [i \in 1..Len(remaining) |->
     Event((GEN_BATTLE_DURATION * 8) \div 10 + 2 * rFlee + (i - 1) * 200,
           "escape", remaining[i].id, NoId, 0)]

\* escape events appended after the exchange loop
EscapeEvents(remaining, alliedWins, enemyCount, rFlee) ==
  IF alliedWins /\ Len(remaining) > 0 /\ Len(remaining) * 1000 < FLEE_THRESHOLD * enemyCount
  THEN [i \in 1..Len(remaining) |->
          Event((GEN_BATTLE_DURATION * 8) \div 10 + 2 * rFlee + (i - 1) * 200,
                "escape", remaining[i].id, NoId, 0)]
  ELSE <<>>

finishEvents(events, enemies, alliedWins, enemyCount, rFlee) ==
  SortByTimestamp(events \o EscapeEvents(SelectSeq(enemies, IsAliveEntity), alliedWins, enemyCount, rFlee))

\* ------------------------------------------------------------------------
\* calculateResultsFromEvents
\* ------------------------------------------------------------------------
IsAlliedKey(squadron, id) == \E i \in 1..Len(squadron) : AlliedId(i - 1) = id

\* mutant: a defeat pays the full amount
rewardOf_full(amount, alliedWins) == amount

\* Math.floor(amount * rewardMultiplier), rewardMultiplier 1.0 or 0.3
rewardOf(amount, alliedWins) ==
  IF alliedWins THEN amount ELSE (amount * DEFEAT_REWARD_PCT) \div 100

calculateResultsFromEvents(squadron, mission, events, alliedWins) ==
  LET destroyedAllied ==
        Len(SelectSeq(events, LAMBDA e : e.type = "destroy" /\ IsAlliedKey(squadron, e.targetId)))
      destroyedEnemy ==
        Len(SelectSeq(events, LAMBDA e : e.type = "destroy" /\ ~IsAlliedKey(squadron, e.targetId)))
      enemiesEscaped == Len(SelectSeq(events, LAMBDA e : e.type = "escape"))
  IN [victory |-> alliedWins,
      survivingAllied |-> Len(squadron) - destroyedAllied,
      destroyedAllied |-> destroyedAllied,
      survivingEnemy |-> mission.enemyCount - destroyedEnemy - enemiesEscaped,
      destroyedEnemy |-> destroyedEnemy,
      enemiesEscaped |-> enemiesEscaped,
      duration |-> GEN_BATTLE_DURATION,
      rewards |-> [credits |-> rewardOf(mission.rewards.credits, alliedWins),
                   researchPoints |-> rewardOf(mission.rewards.researchPoints, alliedWins),
                   highScoreBonus |-> rewardOf(mission.rewards.highScoreBonus, alliedWins)]]

\* ------------------------------------------------------------------------
\* calculateBattleOutcome as a step machine
\* ------------------------------------------------------------------------
NoOutcome == [events |-> <<>>, results |-> [victory |-> FALSE]]

NullBattle == [status |-> "none"]

\* the battle hook is not mounted while the generator is examined
BattleIdle ==
  /\ SimulatorMounted
  /\ battleState = NullBattle
  /\ snapshot = NullBattle
  /\ now = 0
  /\ respawnEnabled = FALSE
  /\ scenario = <<>>
  /\ fresh = TRUE
  /\ shots = 0
  /\ staleTicks = 0
  /\ killLog = <<>>

GenInit ==
  /\ BattleIdle
  /\ gPc = "loop"
  /\ gSquadron \in Rosters
  /\ gMission \in Missions
  /\ gTactic \in Tactics
  /\ gTime = 0
  /\ gAllied = MkAlliedEntities(gSquadron)
  /\ gEnemy = MkEnemyEntities(gMission)
  /\ gEvents = <<>>
  /\ gGated = {}
  /\ gOut = NoOutcome

GenAlliedWins == alliedWinsOf(gSquadron, gMission, gTactic)

LoopContinues ==
  /\ gTime < GEN_BATTLE_DURATION
  /\ SelectSeq(gAllied, IsAliveEntity) # <<>>
  /\ SelectSeq(gEnemy, IsAliveEntity) # <<>>

\* the draws of Math.random() explored for doesHit: hit or miss before the first event,
\* a hit until the script holds MaxLoopEvents events, a miss from then on
HitRand ==
  IF gEvents = <<>> THEN RandVals
  ELSE IF Len(gEvents) < MaxLoopEvents THEN {0} ELSE {999}

\* one iteration of the while loop of generateBattleEvents
GenIterate ==
  /\ gPc = "loop"
  /\ LoopContinues
  /\ \E rT \in IntervalRand, rSide \in RandVals, rA \in RandVals, rD \in RandVals,
        rHit \in HitRand, rKill \in RandVals :
       LET aliveAllies == SelectSeq(gAllied, IsAliveEntity)
           aliveEnemies == SelectSeq(gEnemy, IsAliveEntity)
           t1 == gTime + 1500 + 2 * rT
           battleTime == IF t1 > GEN_BATTLE_DURATION THEN GEN_BATTLE_DURATION ELSE t1
           isAlliedAttack == isAlliedAttackOf(rSide, Initiative(aliveAllies), Initiative(aliveEnemies))
           attackers == IF isAlliedAttack THEN aliveAllies ELSE aliveEnemies
           defenders == IF isAlliedAttack THEN aliveEnemies ELSE aliveAllies
           attacker == attackers[RandIndex(rA, Len(attackers)) + 1]
           target == defenders[RandIndex(rD, Len(defenders)) + 1]
           doesHit == rHit < hitChanceOf(attacker, target)
           isKill == rKill < killChanceOf(attacker)
           canKill == canKillOf(isAlliedAttack, GenAlliedWins, defenders)
       IN /\ gTime' = battleTime
          /\ IF doesHit /\ isKill /\ target.isAlive
             THEN IF canKill
                  THEN /\ gEvents' = Append(gEvents,
                                            Event(battleTime, "destroy", attacker.id, target.id, KILL_DAMAGE))
                       /\ gAllied' = IF isAlliedAttack THEN gAllied ELSE MarkDead(gAllied, target.id)
                       /\ gEnemy' = IF isAlliedAttack THEN MarkDead(gEnemy, target.id) ELSE gEnemy
                       /\ gGated' = {}
                  ELSE /\ gGated' = {<<battleTime, attacker.id, target.id>>}
                       /\ UNCHANGED <<gEvents, gAllied, gEnemy>>
             ELSE IF doesHit
                  THEN /\ gEvents' = Append(gEvents,
                                            Event(battleTime, "hit", attacker.id, target.id, hitDamageOf(attacker)))
                       /\ gGated' = {}
                       /\ UNCHANGED <<gAllied, gEnemy>>
                  ELSE /\ gGated' = {}
                       /\ UNCHANGED <<gEvents, gAllied, gEnemy>>
  /\ UNCHANGED <<gPc, gSquadron, gMission, gTactic, gOut>>
  /\ UNCHANGED bvars
  /\ UNCHANGED cvars

\* loop exit, escape events, sort, calculateResultsFromEvents, return
GenFinish ==
  /\ gPc = "loop"
  /\ ~LoopContinues
  /\ \E rFlee \in RandVals :
       LET events == finishEvents(gEvents, gEnemy, GenAlliedWins, gMission.enemyCount, rFlee)
       IN gOut' = [events |-> events,
                   results |-> calculateResultsFromEvents(gSquadron, gMission, events, GenAlliedWins)]
  /\ gPc' = "done"
  /\ UNCHANGED <<gSquadron, gMission, gTactic, gTime, gAllied, gEnemy, gEvents, gGated>>
  /\ UNCHANGED bvars
  /\ UNCHANGED cvars

GenNext == GenIterate \/ GenFinish

SpecGen == GenInit /\ [][GenNext]_vars

\* ------------------------------------------------------------------------
\* Properties of the Outcome Generator (checked under SpecGen)
\* ------------------------------------------------------------------------
GenDone == gPc = "done"

GenResults == gOut.results

GenAlliedPower == calculateSquadronPower(gSquadron)

GenEnemyPower == calculateEnemyPower(gMission)

\* C6: Victor consistency. results.victory is true exactly when
\* (allied power x tactic multiplier) > enemy power, strictly: a tie is a defeat.
C6_VictorConsistency ==
  GenDone =>
    (GenResults.victory <=>
       (IF gTactic = "aggressive"
        THEN GenAlliedPower * 115 > GenEnemyPower * 100
        ELSE GenAlliedPower > GenEnemyPower))

\* a tie under the defensive tactic, returned as a defeat after at least one event
C6_Witness ==
  /\ GenDone
  /\ gTactic = "defensive"
  /\ GenAlliedPower = GenEnemyPower /\ GenAlliedPower > 0
  /\ ~GenResults.victory
  /\ Len(gOut.events) > 0

\* C7: The script respects the decided victor. With at least one unit and at least
\* one enemy: on victory at least one allied unit survives, on defeat the enemy
\* side is not wiped out.
C7_ScriptRespectsVictor ==
  (GenDone /\ Len(gSquadron) >= 1 /\ gMission.enemyCount >= 1) =>
    /\ GenResults.victory => GenResults.survivingAllied >= 1
    /\ ~GenResults.victory => GenResults.destroyedEnemy < gMission.enemyCount

\* a returned victory in which an allied unit was destroyed and exactly one survives
C7_Witness ==
  /\ GenDone
  /\ GenResults.victory
  /\ GenResults.destroyedAllied >= 1
  /\ GenResults.survivingAllied = 1

\* C8: Conservation. survivingAllied + destroyedAllied = roster size,
\* survivingEnemy + destroyedEnemy + enemiesEscaped = enemyCount, all counts >= 0.
C8_Conservation ==
  GenDone =>
    /\ GenResults.survivingAllied + GenResults.destroyedAllied = Len(gSquadron)
    /\ GenResults.survivingEnemy + GenResults.destroyedEnemy + GenResults.enemiesEscaped
         = gMission.enemyCount
    /\ GenResults.survivingAllied >= 0 /\ GenResults.destroyedAllied >= 0
    /\ GenResults.survivingEnemy >= 0 /\ GenResults.destroyedEnemy >= 0
    /\ GenResults.enemiesEscaped >= 0

\* a returned outcome with destroyed enemies and an escaped one
C8_Witness ==
  /\ GenDone
  /\ GenResults.destroyedEnemy >= 1
  /\ GenResults.enemiesEscaped >= 1

\* C9: Script monotonicity. The returned event list is sorted by non-decreasing
\* timestamp, escape events included.
C9_ScriptMonotone ==
  GenDone =>
    \A i \in 1..Len(gOut.events) : \A j \in 1..Len(gOut.events) :
      i < j => gOut.events[i].timestamp <= gOut.events[j].timestamp

\* a returned script in which an escape event precedes an event of the exchange loop
C9_Witness ==
  /\ GenDone
  /\ \E i \in 1..Len(gOut.events) : \E j \in 1..Len(gOut.events) :
       /\ i < j
       /\ gOut.events[i].type = "escape"
       /\ gOut.events[j].type = "destroy"

\* C10: Scenario A, generalised. When the unmodified allied power equals the enemy
\* power and is > 0, aggressive yields victory and defensive yields defeat.
C10_TieBrokenByTactic ==
  (GenDone /\ GenAlliedPower = GenEnemyPower /\ GenAlliedPower > 0) =>
    /\ gTactic = "aggressive" => GenResults.victory
    /\ gTactic = "defensive" => ~GenResults.victory

\* a tie under the aggressive tactic, returned as a victory
C10_Witness ==
  /\ GenDone
  /\ gTactic = "aggressive"
  /\ GenAlliedPower = GenEnemyPower /\ GenAlliedPower > 0
  /\ GenResults.victory

\* C11: Degenerate input. With mission.enemyCount = 0 or an empty roster the exchange loop
\* runs no iteration and calculateBattleOutcome returns an empty event list with
\* destroyedEnemy = 0, enemiesEscaped = 0, destroyedAllied = 0, survivingEnemy = enemyCount
\* and survivingAllied = roster size.
C11_DegenerateInput ==
  (gPc # "idle" /\ (gMission.enemyCount = 0 \/ gSquadron = <<>>)) =>
    /\ gEvents = <<>>
    /\ gPc = "loop" => ~LoopContinues
    /\ GenDone =>
         /\ gOut.events = <<>>
         /\ GenResults.destroyedEnemy = 0
         /\ GenResults.enemiesEscaped = 0
         /\ GenResults.destroyedAllied = 0
         /\ GenResults.survivingEnemy = gMission.enemyCount
         /\ GenResults.survivingAllied = Len(gSquadron)

\* the generator has returned for a mission without enemies and a roster with jets
C11_Witness ==
  /\ GenDone
  /\ gMission.enemyCount = 0
  /\ gSquadron # <<>>
  /\ GenResults.survivingEnemy = 0

\* C24: Gated kills are downgraded, not dropped. A candidate kill of the last loop
\* iteration that the victor gate rejected has left a 'hit' event with the same timestamp,
\* attacker and target in the script, and its target is alive.
C24_GatedKillDowngraded ==
  \A g \in gGated :
     /\ \E i \in DOMAIN gEvents :
           /\ gEvents[i].type = "hit"
           /\ gEvents[i].timestamp = g[1]
           /\ gEvents[i].attackerId = g[2]
           /\ gEvents[i].targetId = g[3]
     /\ \E i \in DOMAIN (gAllied \o gEnemy) :
           (gAllied \o gEnemy)[i].id = g[3] /\ (gAllied \o gEnemy)[i].isAlive

\* C25: Power formula. alliedPower is the sum over every allied unit of weaponStrength +
\* speed + agility, plus intelligence + endurance of the pilot of each unit that has one (a
\* unit without pilot still counts with its three stats); enemyPower is the sum of the five
\* enemy stats times enemyCount.
C25_PowerFormula ==
  /\ GenAlliedPower =
       SumSeq([i \in 1..Len(gSquadron) |->
                 gSquadron[i].weaponStrength + gSquadron[i].speed + gSquadron[i].agility
                 + (IF gSquadron[i].hasPilot
                    THEN gSquadron[i].intelligence + gSquadron[i].endurance ELSE 0)])
  /\ GenEnemyPower =
       (gMission.enemyStats.weaponStrength + gMission.enemyStats.speed
        + gMission.enemyStats.agility + gMission.enemyStats.intelligence
        + gMission.enemyStats.endurance) * gMission.enemyCount

\* r = floor(0.3 x amount)
IsDefeatShare(r, amount) == r * 10 <= 3 * amount /\ 3 * amount < (r + 1) * 10

RewardAsClaimed(r, amount) ==
  IF GenResults.victory THEN r = amount ELSE IsDefeatShare(r, amount)

\* C26: Rewards. Each of results.rewards.credits, researchPoints and highScoreBonus is the
\* mission's amount when results.victory is TRUE and floor(0.3 x amount) when it is FALSE,
\* whatever the event list is.
C26_Rewards ==
  GenDone =>
    /\ RewardAsClaimed(GenResults.rewards.credits, gMission.rewards.credits)
    /\ RewardAsClaimed(GenResults.rewards.researchPoints, gMission.rewards.researchPoints)
    /\ RewardAsClaimed(GenResults.rewards.highScoreBonus, gMission.rewards.highScoreBonus)

\* a lost battle with a script that holds events: the rewards are cut and rounded down
C26_Witness ==
  /\ GenDone
  /\ ~GenResults.victory
  /\ gOut.events # <<>>
  /\ GenResults.rewards.credits < gMission.rewards.credits
  /\ GenResults.rewards.credits * 10 < 3 * gMission.rewards.credits

\* ------------------------------------------------------------------------
\* The generator on rosters large enough for either side to be left with less than
\* FLEE_THRESHOLD of its units
\* ------------------------------------------------------------------------
FleeRosters == { [i \in 1..FleeAllied |-> PilotedJet] }

\* an enemy this roster beats and one it loses to, whatever the tactic
FleeMissions ==
  { [enemyCount |-> MaxEnemy, enemyStats |-> s, rewards |-> r] :
      s \in EnemyStatKinds
            \cup { [weaponStrength |-> 40, speed |-> 40, agility |-> 40,
                    intelligence |-> 40, endurance |-> 40] },
      r \in RewardKinds }

GenInitFlee ==
  /\ BattleIdle
  /\ gPc = "loop"
  /\ gSquadron \in FleeRosters
  /\ gMission \in FleeMissions
  /\ gTactic \in Tactics
  /\ gTime = 0
  /\ gAllied = MkAlliedEntities(gSquadron)
  /\ gEnemy = MkEnemyEntities(gMission)
  /\ gEvents = <<>>
  /\ gGated = {}
  /\ gOut = NoOutcome

SpecFlee == GenInitFlee /\ [][GenNext]_vars

\* the entities of the side decided to lose
GenLosers == IF GenResults.victory THEN gEnemy ELSE gAllied

GenLosingSurvivors == SelectSeq(GenLosers, IsAliveEntity)

GenEscapes == SelectSeq(gOut.events, LAMBDA e : e.type = "escape")

\* the losing side has a survivor and survivors / initial count < 0.4
GenLosersFlee ==
  /\ GenLosingSurvivors # <<>>
  /\ Len(GenLosingSurvivors) * 1000 < FLEE_THRESHOLD * Len(GenLosers)

\* C27: Escape events. The script holds escape events exactly when the side decided to
\* lose, allied or enemy, has a survivor at the end of the exchange and survivors / initial
\* count is below 0.4; then there is exactly one escape event per survivor, with attackerId
\* the survivor and an empty targetId, and the survivors are counted as escaped.
C27_EscapeEvents ==
  GenDone =>
    /\ GenEscapes # <<>> <=> GenLosersFlee
    /\ GenLosersFlee =>
         /\ Len(GenEscapes) = Len(GenLosingSurvivors)
         /\ \A i \in DOMAIN GenLosingSurvivors :
               \E k \in DOMAIN GenEscapes :
                  /\ GenEscapes[k].attackerId = GenLosingSurvivors[i].id
                  /\ GenEscapes[k].targetId = NoId
         /\ GenResults.enemiesEscaped = Len(GenEscapes)

\* in the list events nothing happens to or through an entity after its destroy event
CausalScript(events) ==
  \A i \in DOMAIN events : \A j \in DOMAIN events :
     (i < j /\ events[i].type = "destroy" /\ events[j].type \in {"hit", "destroy"})
       => /\ events[j].targetId # events[i].targetId
          /\ events[j].attackerId # events[i].targetId

\* C28: Script causality. In every generated script each entity is the target of at most
\* one destroy event, and no hit or destroy event has as attacker or as target an entity
\* that an earlier event of the list destroyed.
C28_ScriptCausality ==
  /\ CausalScript(gEvents)
  /\ GenDone => CausalScript(gOut.events)

\* a returned script in which a destroy event is followed by a hit or destroy event on
\* the victim's side
C28_Witness ==
  /\ GenDone
  /\ \E i \in DOMAIN gOut.events : \E j \in DOMAIN gOut.events :
        /\ i < j
        /\ gOut.events[i].type = "destroy"
        /\ gOut.events[j].type \in {"hit", "destroy"}
        /\ IsAlliedKey(gSquadron, gOut.events[i].targetId)
             = IsAlliedKey(gSquadron, gOut.events[j].targetId)

\* ========================================================================
\* Real-time battle simulation (useBattleSimulation, first definition)
\* ========================================================================
Null == <<>>

Includes(s, e) == \E i \in DOMAIN s : s[i] = e

\* index of the first element satisfying P, 0 when there is none (Array.prototype.find)

MinOf(S) == CHOOSE x \in S : \A y \in S : x <= y

\* Array.prototype.find over the positions I that satisfy the predicate: the first one, 0 if none
FindIdx(I) == IF I = {} THEN 0 ELSE MinOf(I)

IsTerminal(status) == status \in {"victory", "defeat"}

NoBurst ==
  [active |-> FALSE, burstsLeft |-> 0, tracersLeftInBurst |-> 0, nextShotTimer |-> 0,
   isKillShot |-> FALSE]

NoFlare == [deploying |-> FALSE, flaresLeft |-> 0, nextFlareTimer |-> 0]

\* Math.random() * 3 seconds, for a draw r in per-mille
initialCooldown(r) == 3 * r

\* FIRING_COOLDOWN + (Math.random() - 0.5) seconds
nextCooldown(r) == FIRING_COOLDOWN + (r - 500)

NewJet(id, team, aiState, partnerId, rCool) ==
  [id |-> id, team |-> team, targetId |-> NoId, partnerId |-> partnerId,
   isDestroyed |-> FALSE, isWrecked |-> FALSE, destroyedAt |-> Null, isEscaping |-> FALSE,
   aiState |-> aiState, fireCooldown |-> initialCooldown(rCool),
   burstState |-> NoBurst, flareState |-> NoFlare,
   cinematicKillTargetId |-> NoId, isTargetOfCinematicKill |-> FALSE]

MkAlliedJets(squadron, rCool) ==
  [i \in 1..Len(squadron) |-> NewJet(AlliedId(i - 1), "allied", "attacking", NoId, rCool)]

numAttackersOf(numEnemies) ==
  IF numEnemies <= 2 THEN numEnemies ELSE (numEnemies - 1) \div 4 + 1

\* leaders are the first numAttackers enemies; wingman k follows leader k % numAttackers
MkEnemyJets(mission, rCool) ==
  [i \in 1..mission.enemyCount |->
     IF i - 1 < numAttackersOf(mission.enemyCount)
     THEN NewJet(EnemyId(i - 1), "enemy", "attacking", NoId, rCool)
     ELSE NewJet(EnemyId(i - 1), "enemy", "following",
                 EnemyId((i - 1 - numAttackersOf(mission.enemyCount))
                           % numAttackersOf(mission.enemyCount)), rCool)]

IsDestroyEvent(e) == e.type = "destroy"

\* mutant: the disengage time follows the last kill without the cap of the timeout
disengageTimeOf_uncapped(events) ==
  LET kills == SelectSeq(events, IsDestroyEvent)
  IN IF kills = <<>> THEN BATTLE_DURATION - DISENGAGE_DELAY
     ELSE kills[Len(kills)].timestamp + DISENGAGE_DELAY

\* Math.min(lastKillTime + DISENGAGE_DELAY, BATTLE_DURATION - DISENGAGE_DELAY); no kill: Infinity
disengageTimeOf(events) ==
  LET kills == SelectSeq(events, IsDestroyEvent)
      lastKillTime == CHOOSE t \in {kills[i].timestamp : i \in DOMAIN kills} :
                        \A i \in DOMAIN kills : kills[i].timestamp <= t
  IN IF kills = <<>> THEN BATTLE_DURATION - DISENGAGE_DELAY
     ELSE IF lastKillTime + DISENGAGE_DELAY < BATTLE_DURATION - DISENGAGE_DELAY
          THEN lastKillTime + DISENGAGE_DELAY
          ELSE BATTLE_DURATION - DISENGAGE_DELAY

initializeBattle(squadron, mission, outcome, t, rCool) ==
  [status |-> "active", startTime |-> t, endTime |-> Null,
   disengageTime |-> disengageTimeOf(outcome.events),
   battleEndTime |-> disengageTimeOf(outcome.events) + DISENGAGE_DURATION,
   alliedJets |-> MkAlliedJets(squadron, rCool),
   enemyJets |-> MkEnemyJets(mission, rCool),
   scheduledEvents |-> outcome.events, executedEvents |-> <<>>,
   tracers |-> <<>>, missiles |-> <<>>, flares |-> <<>>,
   results |-> outcome.results]

allJetsOf(S) == S.alliedJets \o S.enemyJets

\* mutant: a wrecked entity still counts as a target
IsLive_any(j) == TRUE

\* !j.isDestroyed && !j.isWrecked
IsLive(j) == ~j.isDestroyed /\ ~j.isWrecked

\* allJets.find(j => j.id === id && !j.isDestroyed && !j.isWrecked)
LiveIdx(jets, id) == FindIdx({i \in DOMAIN jets : jets[i].id = id /\ IsLive(jets[i])})

\* allJets.find(j => j.id === id && !j.isWrecked)
UnwreckedIdx(jets, id) == FindIdx({i \in DOMAIN jets : jets[i].id = id /\ ~jets[i].isWrecked})

\* --- scheduled events whose deadline has passed --------------------------
IsDue(S, elapsed, e) == e.timestamp <= elapsed /\ ~Includes(S.executedEvents, e)

\* forced, firedBy: the missile id `m_forced_${attacker.id}_...`
ForcedMissile(attackerId, targetId) ==
  [forced |-> TRUE, firedBy |-> attackerId, targetId |-> targetId, willDetonate |-> TRUE,
   life |-> MISSILE_LIFESPAN, dist |-> ForcedLaunchDist]

LaunchesForced(jets, e) ==
  /\ e.type = "destroy"
  /\ UnwreckedIdx(jets, e.attackerId) # 0
  /\ UnwreckedIdx(jets, e.targetId) # 0

executeScheduledEvents(S, jets, elapsed) ==
  LET due == SelectSeq(S.scheduledEvents, LAMBDA e : IsDue(S, elapsed, e))
      launching == SelectSeq(due, LAMBDA e : LaunchesForced(jets, e))
  IN [newExecutedEvents |-> due,
      forced |-> [i \in DOMAIN launching |-> ForcedMissile(launching[i].attackerId, launching[i].targetId)]]

\* --- missile detonation and wreckage creation ----------------------------
MissileInRange(jets, m) ==
  /\ LiveIdx(jets, m.targetId) # 0
  /\ m.dist < MISSILE_PROXIMITY_DETONATION_RANGE

\* mutant: every missile in range detonates
destroyedJetIdsOf_anyMissile(jets, missiles) ==
  {missiles[i].targetId : i \in {k \in DOMAIN missiles : MissileInRange(jets, missiles[k])}}

destroyedJetIdsOf(jets, missiles) ==
  {missiles[i].targetId :
     i \in {k \in DOMAIN missiles : MissileInRange(jets, missiles[k]) /\ missiles[k].willDetonate}}

\* a dud in range loses its target and flies on
defuse(jets, m) ==
  IF MissileInRange(jets, m) /\ ~m.willDetonate THEN [m EXCEPT !.targetId = NoId] ELSE m

defuseAll(jets, missiles) == [i \in DOMAIN missiles |-> defuse(jets, missiles[i])]

survivingMissiles(jets, missiles) ==
  SelectSeq(defuseAll(jets, missiles),
            LAMBDA m : ~(MissileInRange(jets, m) /\ m.willDetonate))

wreckJet(jet, t) == [jet EXCEPT !.isWrecked = TRUE, !.destroyedAt = <<t>>]

\* leader promotion when the wrecked jet i was an enemy squad leader
promoteLeader(jets, i, destroyed, pick) ==
  LET jet == jets[i]
      wingmen == {w \in DOMAIN jets :
                    jets[w].partnerId = jet.id /\ IsLive(jets[w]) /\ jets[w].id \notin destroyed}
      allies == SelectSeq(jets, LAMBDA j : j.team = "allied" /\ IsLive(j) /\ j.id \notin destroyed)
  IN IF jet.team = "enemy" /\ jet.aiState = "attacking" /\ wingmen # {}
     THEN [w \in DOMAIN jets |->
             IF w = MinOf(wingmen)
             THEN [jets[w] EXCEPT !.aiState = "attacking",
                                  !.partnerId = NoId,
                                  !.targetId = IF allies # <<>>
                                               THEN allies[RandIndex(pick, Len(allies)) + 1].id
                                               ELSE @]
             ELSE IF w \in wingmen THEN [jets[w] EXCEPT !.partnerId = jets[MinOf(wingmen)].id]
             ELSE jets[w]]
     ELSE jets

\* allJets.forEach(jet => if (destroyedJetIds.has(jet.id)) ...), from index i on
RECURSIVE applyMissileDamage(_, _, _, _, _)
applyMissileDamage(jets, i, destroyed, t, pick) ==
  IF i > Len(jets) THEN jets
  ELSE IF jets[i].id \in destroyed
       THEN applyMissileDamage(
              promoteLeader([jets EXCEPT ![i] = wreckJet(@, t)], i, destroyed, pick),
              i + 1, destroyed, t, pick)
       ELSE applyMissileDamage(jets, i + 1, destroyed, t, pick)

\* --- green team target swapping ------------------------------------------
swapSecond(t) == (t \div 1000) % GREEN_TARGET_SWAP_TIME = 0

greenTargetSwap(jets, t) ==
  LET green == {i \in DOMAIN jets : jets[i].team = "allied" /\ IsLive(jets[i])}
      first == MinOf(green)
      second == MinOf(green \ {first})
  IN IF swapSecond(t) /\ Cardinality(green) >= 2
     THEN [jets EXCEPT ![first].targetId = jets[second].targetId,
                       ![second].targetId = jets[first].targetId]
     ELSE jets

\* --- cinematic kill preparation ------------------------------------------
cinematicEventIdx(S, elapsed, id) ==
  FindIdx({i \in DOMAIN S.scheduledEvents :
             LET e == S.scheduledEvents[i]
             IN /\ e.attackerId = id
                /\ e.type = "destroy"
                /\ e.timestamp > elapsed
                /\ e.timestamp <= elapsed + CINEMATIC_WINDOW
                /\ ~Includes(S.executedEvents, e)})

prepareCinematicKills(S, jets, elapsed) ==
  [i \in DOMAIN jets |->
     [jets[i] EXCEPT
        !.cinematicKillTargetId =
           IF cinematicEventIdx(S, elapsed, jets[i].id) # 0
           THEN S.scheduledEvents[cinematicEventIdx(S, elapsed, jets[i].id)].targetId
           ELSE NoId,
        !.isTargetOfCinematicKill =
           \E k \in DOMAIN jets :
              /\ cinematicEventIdx(S, elapsed, jets[k].id) # 0
              /\ S.scheduledEvents[cinematicEventIdx(S, elapsed, jets[k].id)].targetId = jets[i].id]]

\* --- updateJet ------------------------------------------------------------
\* The frame state threaded through the jets of one tick:
\*   jets: the snapshot's entity objects (mutated in place), out: the copies returned so far
liveIdsOf(jets, team) ==
  LET live == SelectSeq(jets, LAMBDA j : j.team = team /\ IsLive(j))
  IN [i \in DOMAIN live |-> live[i].id]

imminentEventIdx(S, elapsed, id) ==
  FindIdx({i \in DOMAIN S.scheduledEvents :
             LET e == S.scheduledEvents[i]
             IN /\ e.attackerId = id
                /\ e.type = "destroy"
                /\ e.timestamp > elapsed
                /\ e.timestamp <= elapsed + imminentEventWindow})

\* jet.targetId after the AI branch. The closest enemy of an allied jet is decided by the
\* positions: near[jet.id] is the draw that stands for them; the random ally is the draw pick
targetIdAfterAI(S, jets, jet, elapsed, pick, near) ==
  IF S.status = "disengaging" \/ jet.cinematicKillTargetId # NoId \/ jet.isEscaping
  THEN jet.targetId
  ELSE LET up == imminentEventIdx(S, elapsed, jet.id)
           scripted == IF up # 0 /\ (jet.aiState = "attacking" \/ jet.team = "allied")
                       THEN S.scheduledEvents[up].targetId
                       ELSE jet.targetId
           hasTarget == LiveIdx(jets, scripted) # 0
           enemies == liveIdsOf(jets, "enemy")
           allies == liveIdsOf(jets, "allied")
       IN IF jet.team = "allied"
          THEN IF ~hasTarget /\ enemies # <<>>
               THEN enemies[RandIndex(near[jet.id], Len(enemies)) + 1]
               ELSE scripted
          ELSE IF jet.aiState = "attacking" /\ ~hasTarget /\ allies # <<>>
               THEN allies[RandIndex(pick, Len(allies)) + 1]
               ELSE scripted

\* mutant: any unexecuted destroy event of the attacker makes the release lethal
scriptedKillIdx_anyTarget(S, newExecutedEvents, jet) ==
  FindIdx({i \in DOMAIN S.scheduledEvents :
             LET e == S.scheduledEvents[i]
             IN /\ e.type = "destroy"
                /\ e.attackerId = jet.id
                /\ ~Includes(S.executedEvents, e)
                /\ ~Includes(newExecutedEvents, e)})

\* the unexecuted destroy event of the script for attacker -> its current target
scriptedKillIdx(S, newExecutedEvents, jet) ==
  FindIdx({i \in DOMAIN S.scheduledEvents :
             LET e == S.scheduledEvents[i]
             IN /\ e.type = "destroy"
                /\ e.attackerId = jet.id
                /\ e.targetId = jet.targetId
                /\ ~Includes(S.executedEvents, e)
                /\ ~Includes(newExecutedEvents, e)})

\* distanceToTarget > WEAPON_RANGE_THRESHOLD at a missile launch
NaturalLaunchDist == WEAPON_RANGE_THRESHOLD + LaunchMargin

\* firedBy: the missile id `m_${jet.id}_...`
NaturalMissile(jetId, targetId, lethal) ==
  [forced |-> FALSE, firedBy |-> jetId, targetId |-> targetId, willDetonate |-> lethal,
   life |-> MISSILE_LIFESPAN, dist |-> NaturalLaunchDist]

startFlares(f) ==
  IF f.deploying THEN f
  ELSE [deploying |-> TRUE, flaresLeft |-> FLARES_TO_DEPLOY, nextFlareTimer |-> 0]

\* flareState is one object shared by the entity and its copy
triggerFlares(W, k) ==
  [W EXCEPT !.jets[k].flareState = startFlares(@),
            !.out = [n \in DOMAIN W.out |->
                       IF n = k THEN [W.out[n] EXCEPT !.flareState = startFlares(@)]
                       ELSE W.out[n]]]

\* long range: missile launch
launchMissile(W, i, tIdx, S, rCool) ==
  LET jet == W.jets[i]
      ev == scriptedKillIdx(S, W.newExecutedEvents, jet)
      W1 == [W EXCEPT
               !.newExecutedEvents = IF ev # 0 THEN Append(@, S.scheduledEvents[ev]) ELSE @,
               !.missiles = Append(@, NaturalMissile(jet.id, jet.targetId, ev # 0)),
               !.jets[i].fireCooldown = nextCooldown(rCool),
               !.shots = @ + 1]
  IN triggerFlares(W1, tIdx)

\* close range: tracer burst
startBurst(W, i, rCool) ==
  [W EXCEPT !.jets[i].burstState = [active |-> TRUE, burstsLeft |-> BURST_COUNT,
                                    tracersLeftInBurst |-> TRACERS_PER_BURST,
                                    nextShotTimer |-> 0, isKillShot |-> @.isKillShot],
            !.jets[i].fireCooldown = nextCooldown(rCool),
            !.shots = @ + 1]

\* FIRING LOGIC; tIdx is the live target found after movement (0: none)
fireWeapon(W, i, tIdx, S, inp) ==
  LET jet == W.jets[i]
      cooldown == jet.fireCooldown - DELTA_MS
  IN IF S.status = "active" /\ jet.aiState = "attacking" /\ tIdx # 0
     THEN IF cooldown <= 0 /\ ~jet.burstState.active /\ jet.id \in inp.inFront
          THEN IF jet.id \in inp.far
               THEN launchMissile(W, i, tIdx, S, inp.rCool)
               ELSE startBurst(W, i, inp.rCool)
          ELSE [W EXCEPT !.jets[i].fireCooldown = cooldown]
     ELSE W

\* bookkeeping after a tracer that was not a kill shot
advanceBurst(W, i, S) ==
  LET jet == W.jets[i]
      b == jet.burstState
      ev == scriptedKillIdx(S, W.newExecutedEvents, jet)
  IN IF b.tracersLeftInBurst - 1 > 0
     THEN [W EXCEPT !.jets[i].burstState.tracersLeftInBurst = b.tracersLeftInBurst - 1,
                    !.jets[i].burstState.nextShotTimer = TIME_BETWEEN_TRACERS]
     ELSE IF b.burstsLeft - 1 <= 0
          THEN [W EXCEPT !.jets[i].burstState =
                           [b EXCEPT !.tracersLeftInBurst = b.tracersLeftInBurst - 1,
                                     !.burstsLeft = b.burstsLeft - 1,
                                     !.active = FALSE, !.isKillShot = FALSE]]
          ELSE [W EXCEPT !.jets[i].burstState =
                           [b EXCEPT !.tracersLeftInBurst = TRACERS_PER_BURST,
                                     !.burstsLeft = b.burstsLeft - 1,
                                     !.nextShotTimer = TIME_BETWEEN_BURSTS,
                                     !.isKillShot = (b.burstsLeft - 1 = 1) /\ ev # 0],
                         !.newExecutedEvents =
                           IF b.burstsLeft - 1 = 1 /\ ev # 0
                           THEN Append(@, S.scheduledEvents[ev]) ELSE @]

\* the kill shot wrecks whatever live entity the attacker's targetId names now;
\* the entity object is mutated, a copy already returned for it is not
killShot(W, i, t) ==
  LET k == LiveIdx(W.jets, W.jets[i].targetId)
      W1 == IF k # 0
            THEN [W EXCEPT !.jets[k] = wreckJet(@, t),
                           !.kills[W.jets[k].id] = @ + 1]
            ELSE W
  IN [W1 EXCEPT !.jets[i].burstState.active = FALSE,
                !.jets[i].burstState.isKillShot = FALSE]

\* BURST FIRING
fireBurst(W, i, tIdx, S, t) ==
  LET b == W.jets[i].burstState
      timer == b.nextShotTimer - DELTA_MS
  IN IF S.status = "active" /\ b.active /\ tIdx # 0
     THEN IF timer <= 0
          THEN LET W1 == [W EXCEPT !.jets[i].burstState.nextShotTimer = timer,
                                   !.tracers = Append(@, TRACER_LIFESPAN)]
               IN IF b.isKillShot THEN killShot(W1, i, t) ELSE advanceBurst(W1, i, S)
          ELSE [W EXCEPT !.jets[i].burstState.nextShotTimer = timer]
     ELSE W

\* FLARE DEPLOYMENT
deployFlares(W, i) ==
  LET f == W.jets[i].flareState
      timer == f.nextFlareTimer - DELTA_MS
  IN IF f.deploying
     THEN IF timer <= 0 /\ f.flaresLeft > 0
          THEN [W EXCEPT !.flares = @ \o <<FLARE_LIFESPAN, FLARE_LIFESPAN>>,
                         !.jets[i].flareState =
                            IF f.flaresLeft - 2 <= 0
                            THEN [deploying |-> FALSE, flaresLeft |-> f.flaresLeft - 2,
                                  nextFlareTimer |-> timer]
                            ELSE [deploying |-> TRUE, flaresLeft |-> f.flaresLeft - 2,
                                  nextFlareTimer |-> TIME_BETWEEN_FLARE_PAIRS]]
          ELSE [W EXCEPT !.jets[i].flareState.nextFlareTimer = timer]
     ELSE W

\* position.length() > WORLD_RADIUS for a wreck: it has fallen for WreckFallMs
leftWorld(jet, t) == jet.destroyedAt # Null /\ t - jet.destroyedAt[1] >= WreckFallMs

\* the copy { ...jet } returned for entity i
returnCopy(W, i) == [W EXCEPT !.out = Append(@, W.jets[i])]

\* firing, burst and flares of a flying jet; tIdx: its live target after the AI branch
fireAndCopy(W, i, tIdx, S, t, inp) ==
  returnCopy(deployFlares(fireBurst(fireWeapon(W, i, tIdx, S, inp), i, tIdx, S, t), i), i)

aimAndFire(W, i, targetId, S, t, inp) ==
  fireAndCopy([W EXCEPT !.jets[i].targetId = targetId], i, LiveIdx(W.jets, targetId), S, t, inp)

updateJet(W, i, S, elapsed, t, inp) ==
  IF W.jets[i].isWrecked
  THEN returnCopy([W EXCEPT !.jets[i].destroyedAt =
                              IF leftWorld(W.jets[i], t) THEN <<t - RESPAWN_TIME - 1>> ELSE @], i)
  ELSE IF W.jets[i].isDestroyed
  THEN returnCopy(W, i)
  ELSE aimAndFire(W, i, targetIdAfterAI(S, W.jets, W.jets[i], elapsed, inp.pick, inp.near),
                  S, t, inp)

\* battleState.alliedJets.map(updateJet), then battleState.enemyJets.map(updateJet)
RECURSIVE updateJets(_, _, _, _, _, _)
updateJets(W, i, S, elapsed, t, inp) ==
  IF i > Len(W.jets) THEN W
  ELSE updateJets(updateJet(W, i, S, elapsed, t, inp), i + 1, S, elapsed, t, inp)

\* --- combat effects -------------------------------------------------------
ageAll(lives) == SelectSeq([i \in DOMAIN lives |-> lives[i] - DELTA_MS], LAMBDA l : l > 0)

\* distance covered per frame by a homing missile, in tenths of a unit
missileStep == (MISSILE_SPEED * DELTA_MS) \div 1000

moveMissile(jets, m) ==
  LET tracked == LiveIdx(jets, m.targetId) # 0
  IN [m EXCEPT !.life = @ - DELTA_MS,
               !.dist = IF ~tracked THEN @
                        ELSE IF m.forced THEN @ - (@ * FORCED_LERP_PCT) \div 100
                        ELSE IF @ > missileStep THEN @ - missileStep ELSE 0]

updateMissiles(jets, missiles) ==
  SelectSeq([i \in DOMAIN missiles |-> moveMissile(jets, missiles[i])], LAMBDA m : m.life > 0)

\* --- respawn ----------------------------------------------------------------
\* mutant: a wreck is respawned by the first tick after the one that wrecked it
respawnDue_noDelay(jet, t) ==
  /\ jet.isDestroyed \/ jet.isWrecked
  /\ jet.destroyedAt # Null
  /\ jet.destroyedAt[1] # 0
  /\ t - jet.destroyedAt[1] > 0

respawnDue(jet, t) ==
  /\ jet.isDestroyed \/ jet.isWrecked
  /\ jet.destroyedAt # Null
  /\ jet.destroyedAt[1] # 0
  /\ t - jet.destroyedAt[1] > RESPAWN_TIME

respawnJet(jet, t, rCool) ==
  IF respawnDue(jet, t)
  THEN [jet EXCEPT !.isDestroyed = FALSE, !.isWrecked = FALSE, !.destroyedAt = Null,
                   !.fireCooldown = initialCooldown(rCool),
                   !.burstState = NoBurst, !.flareState = NoFlare]
  ELSE jet

\* mutant: the respawn pass runs whatever the respawn flag says
respawnJets_unflagged(jets, enabled, t, rCool) ==
  [i \in DOMAIN jets |-> respawnJet(jets[i], t, rCool)]

respawnJets(jets, enabled, t, rCool) ==
  IF enabled THEN [i \in DOMAIN jets |-> respawnJet(jets[i], t, rCool)] ELSE jets

\* --- one run of the interval callback ---------------------------------------
\* mutant: the terminal phase is a victory whatever the results say
terminalStatus_victory(prev) == "victory"

terminalStatus(prev) == IF prev.results.victory THEN "victory" ELSE "defeat"

\* the setBattleState calls at the end of the frame and what the callback leaves behind:
\* the new state, the closed-over state with its objects as mutated, the weapon releases
\* and the wreck assignments made by kill code
commitFrame(S, prev1, prev, W, updated, jets0) ==
  [state |-> [prev1 EXCEPT
                !.alliedJets = SubSeq(updated, 1, Len(S.alliedJets)),
                !.enemyJets = SubSeq(updated, Len(S.alliedJets) + 1, Len(updated)),
                !.executedEvents = prev.executedEvents \o W.newExecutedEvents,
                !.tracers = ageAll(W.tracers),
                !.missiles = updateMissiles(W.jets, W.missiles),
                !.flares = ageAll(W.flares)],
   snap |-> [S EXCEPT
               !.alliedJets = SubSeq(W.jets, 1, Len(S.alliedJets)),
               !.enemyJets = SubSeq(W.jets, Len(S.alliedJets) + 1, Len(W.jets)),
               !.missiles = defuseAll(jets0, S.missiles)],
   shots |-> W.shots, kills |-> W.kills]

respawnAndCommit(S, prev1, prev, W, jets0, enabled, t, inp) ==
  commitFrame(S, prev1, prev, W, respawnJets(W.out, enabled, t, inp.rSpawn), jets0)

\* the frame from the AI update on; jets: the entity objects after detonation damage
simulateFrame(S, prev1, prev, jets0, jets1, newExecutedEvents, missiles1, kills1, elapsed, t, enabled, inp, shotsSoFar) ==
  respawnAndCommit(
    S, prev1, prev,
    updateJets([jets |-> prepareCinematicKills(S, greenTargetSwap(jets1, t), elapsed),
                out |-> <<>>,
                newExecutedEvents |-> newExecutedEvents,
                missiles |-> missiles1, tracers |-> S.tracers, flares |-> S.flares,
                shots |-> shotsSoFar, kills |-> kills1],
               1, S, elapsed, t, inp),
    jets0, enabled, t, inp)

\* missile detonation and wreckage creation, then the rest of the frame
detonateAndSimulate(S, prev1, prev, jets0, newExecutedEvents, missiles0, destroyed, elapsed, t, enabled, inp, shotsSoFar, kills) ==
  simulateFrame(S, prev1, prev, jets0,
                applyMissileDamage(jets0, 1, destroyed, t, inp.pick),
                newExecutedEvents,
                survivingMissiles(jets0, missiles0),
                [id \in DOMAIN kills |-> IF id \in destroyed THEN kills[id] + 1 ELSE kills[id]],
                elapsed, t, enabled, inp, shotsSoFar)

launchAndDetonate(S, prev1, prev, jets0, sched, elapsed, t, enabled, inp, shotsSoFar, kills) ==
  detonateAndSimulate(S, prev1, prev, jets0, sched.newExecutedEvents,
                      S.missiles \o sched.forced,
                      destroyedJetIdsOf(jets0, S.missiles \o sched.forced),
                      elapsed, t, enabled, inp, shotsSoFar, kills)

runFrame(S, prev1, prev, jets0, elapsed, t, enabled, inp, shotsSoFar, kills) ==
  launchAndDetonate(S, prev1, prev, jets0, executeScheduledEvents(S, jets0, elapsed),
                    elapsed, t, enabled, inp, shotsSoFar, kills)

\* the phase checks at the head of the callback; prev1 is prev after the first update
\* mutant: the terminal check comes after the frame of the tick
checkPhase_last(S, prev1, prev, elapsed, t, enabled, inp, shotsSoFar, kills) ==
  LET r == runFrame(S, prev1, prev, allJetsOf(S), elapsed, t, enabled, inp, shotsSoFar, kills)
  IN IF elapsed >= S.battleEndTime
     THEN [r EXCEPT !.state.status = terminalStatus(prev1), !.state.endTime = <<t>>]
     ELSE r

checkPhase(S, prev1, prev, elapsed, t, enabled, inp, shotsSoFar, kills) ==
  IF elapsed >= S.battleEndTime
  THEN [state |-> [prev1 EXCEPT !.status = terminalStatus(prev1), !.endTime = <<t>>],
        snap |-> S, shots |-> shotsSoFar, kills |-> kills]
  ELSE runFrame(S, prev1, prev, allJetsOf(S), elapsed, t, enabled, inp, shotsSoFar, kills)

\* S: the battleState the callback closed over; prev: the state the functional updates are
\* applied to; t: Date.now()
intervalCallback(S, prev, t, enabled, inp, shotsSoFar, kills) ==
  checkPhase(S,
             IF S.status = "active" /\ t - S.startTime > S.disengageTime
             THEN [prev EXCEPT !.status = "disengaging"]
             ELSE prev,
             prev, t - S.startTime, t, enabled, inp, shotsSoFar, kills)

\* ------------------------------------------------------------------------
\* Battles the simulation is run on
\* ------------------------------------------------------------------------
BattleSquadron == <<PilotedJet, PilotedJet>>

BattleMission ==
  [enemyCount |-> 3,
   enemyStats |-> [weaponStrength |-> 20, speed |-> 20, agility |-> 20,
                   intelligence |-> 10, endurance |-> 10],
   rewards |-> [credits |-> 105, researchPoints |-> 10, highScoreBonus |-> 7]]

Kill(ts, attackerId, targetId) == Event(ts, "destroy", attackerId, targetId, KILL_DAMAGE)

\* scripts generateBattleEvents can return for BattleSquadron against BattleMission
ScriptAlliedKill == <<Kill(5000, "allied-0", "enemy-0")>>

ScriptEnemyKill == <<Kill(5000, "enemy-0", "allied-0")>>

ScriptEarlyKill == <<Kill(1500, "allied-0", "enemy-0")>>

ScriptLateKill == <<Kill(7200, "allied-1", "enemy-1")>>

ScriptTwoKills == <<Kill(5000, "allied-0", "enemy-0"), Kill(7200, "allied-1", "enemy-1")>>

\* a script that never wrecks anything, and one whose only kill comes late in the battle
ScriptNoKill == <<Event(3000, "hit", "allied-0", "enemy-0", hitDamageOf(PilotedJet))>>

ScriptLastKill == <<Kill(26500, "enemy-0", "allied-0")>>

OutcomeOf(events) ==
  [events |-> events,
   results |-> calculateResultsFromEvents(BattleSquadron, BattleMission, events,
                 alliedWinsOf(BattleSquadron, BattleMission, "aggressive"))]

\* a pre-computed outcome (preCalculatedOutcome) whose results say defeat
LostOutcomeOf(events) ==
  [events |-> events,
   results |-> calculateResultsFromEvents(BattleSquadron, BattleMission, events, FALSE)]

\* aimers: the jets that get their target into the firing cone at AimFromMs
Battle(events, start, respawn, aimers) ==
  [squadron |-> BattleSquadron, mission |-> BattleMission, outcome |-> OutcomeOf(events),
   start |-> start, respawn |-> respawn, aimers |-> aimers]

LostBattle(events, start, respawn, aimers) ==
  [Battle(events, start, respawn, aimers) EXCEPT !.outcome = LostOutcomeOf(events)]

\* Date.now() at initializeBattle: the swap second opens 2010 ms into the battle, or with it
LateSwapStart == 7990

Battles ==
  { Battle(ScriptAlliedKill, 0, TRUE, {"allied-0"}),
    Battle(ScriptEnemyKill, 0, FALSE, {"enemy-0"}),
    Battle(ScriptLateKill, LateSwapStart, FALSE, {"allied-1"}),
    Battle(ScriptTwoKills, LateSwapStart, FALSE, {"allied-0", "allied-1"}),
    LostBattle(ScriptNoKill, 0, FALSE, {}),
    LostBattle(ScriptLastKill, 0, FALSE, {}) }

\* the battle on which callbacks on an outdated snapshot are explored
StaleBattles == { Battle(ScriptEarlyKill, 0, FALSE, {}) }

\* closest-enemy draws explored: allied-0 is closest to the first living enemy,
\* allied-1 to the first or to the middle one
NearDraws ==
  { [id \in {"allied-0", "allied-1"} |-> IF id = "allied-0" THEN 0 ELSE r] : r \in {0, 500} }

\* a frame consults a draw only when an attacker has no living target, a flagged kill shot
\* is pending or a missile is in flight (promotion of a wingman)
DrawNeeded(S) ==
  \/ S.missiles # <<>>
  \/ \E i \in DOMAIN allJetsOf(S) :
        LET j == allJetsOf(S)[i]
        IN /\ ~j.isWrecked
           /\ j.team = "allied" \/ j.aiState = "attacking"
           /\ LiveIdx(allJetsOf(S), j.targetId) = 0 \/ j.burstState.isKillShot

PickDraws(S) == IF DrawNeeded(S) THEN RandVals ELSE {0}

NearDrawsFor(S) == IF DrawNeeded(S) THEN NearDraws ELSE {[id \in {"allied-0", "allied-1"} |-> 0]}

BattleIds(b) ==
  {AlliedId(i - 1) : i \in 1..Len(b.squadron)} \cup {EnemyId(i - 1) : i \in 1..b.mission.enemyCount}

\* the generator is not running while a battle is examined
GenIdle ==
  /\ gPc = "idle"
  /\ gSquadron = <<>>
  /\ gMission = BattleMission
  /\ gTactic = "aggressive"
  /\ gTime = 0
  /\ gAllied = <<>>
  /\ gEnemy = <<>>
  /\ gEvents = <<>>
  /\ gGated = {}
  /\ gOut = NoOutcome

\* the hook after construction: useState(null), no interval
InitOn(battles) ==
  /\ GenIdle
  /\ SimulatorMounted
  /\ scenario \in battles
  /\ respawnEnabled = scenario.respawn
  /\ now = scenario.start
  /\ battleState = NullBattle
  /\ snapshot = NullBattle
  /\ fresh = TRUE
  /\ shots = 0
  /\ staleTicks = 0
  /\ killLog = [id \in BattleIds(scenario) |-> 0]

Init == InitOn(Battles)

Elapsed == now - battleState.startTime

\* initializeBattle(), called by the component on mount
InitializeBattle ==
  /\ battleState = NullBattle
  /\ \E rCool \in {0} :
       battleState' = initializeBattle(scenario.squadron, scenario.mission, scenario.outcome,
                                       now, rCool)
  /\ fresh' = FALSE
  /\ UNCHANGED <<snapshot, now, respawnEnabled, scenario, shots, staleTicks, killLog>>
  /\ UNCHANGED gvars
  /\ UNCHANGED cvars

\* mutant: the effect sets up an interval whatever the status
Resubscribe_always ==
  /\ ~fresh
  /\ battleState # NullBattle
  /\ fresh' = TRUE
  /\ snapshot' = battleState
  /\ UNCHANGED <<battleState, now, respawnEnabled, scenario, shots, staleTicks, killLog>>
  /\ UNCHANGED gvars
  /\ UNCHANGED cvars

\* the effect of the main simulation loop, re-run because battleState changed:
\* the old interval is cleared, a new one closes over the current battleState
Resubscribe ==
  /\ ~fresh
  /\ battleState # NullBattle
  /\ fresh' = TRUE
  /\ snapshot' = IF IsTerminal(battleState.status) THEN NullBattle ELSE battleState
  /\ UNCHANGED <<battleState, now, respawnEnabled, scenario, shots, staleTicks, killLog>>
  /\ UNCHANGED gvars
  /\ UNCHANGED cvars

\* the jets whose target is in the firing cone in the frame at time t
FrontSets(t) ==
  IF /\ t - snapshot.startTime >= AimFromMs
     /\ t - snapshot.startTime < AimFromMs + TICK_MS
     /\ shots < MaxShots
  THEN {A \in SUBSET scenario.aimers : Cardinality(A) <= MaxShots - shots}
  ELSE {{}}

Outcome(r) ==
  /\ battleState' = r.state
  /\ snapshot' = r.snap
  /\ shots' = r.shots
  /\ killLog' = r.kills

RunCallback ==
  /\ snapshot # NullBattle
  /\ \E pick \in PickDraws(snapshot), near \in NearDrawsFor(snapshot),
        inFront \in FrontSets(now + TICK_MS) :
       \E far \in SUBSET inFront :
          Outcome(intervalCallback(snapshot, battleState, now + TICK_MS, respawnEnabled,
                                   [pick |-> pick, near |-> near, inFront |-> inFront,
                                    far |-> far, rCool |-> 500, rSpawn |-> 0],
                                   shots, killLog))
  /\ now' = now + TICK_MS
  /\ fresh' = FALSE
  /\ UNCHANGED <<respawnEnabled, scenario>>
  /\ UNCHANGED gvars
  /\ UNCHANGED cvars

\* the interval fires after the effect re-subscribed it
Tick ==
  /\ fresh
  /\ RunCallback
  /\ UNCHANGED staleTicks

\* mutant: the forced end rewrites the results to a victory
forceEndBattle_rewriting(prev, t) ==
  [prev EXCEPT !.status = "victory", !.endTime = <<t>>, !.results.victory = TRUE]

\* forceEndBattle: the updater applied to the current state at Date.now() = t
forceEndBattle(prev, t) == [prev EXCEPT !.status = terminalStatus(prev), !.endTime = <<t>>]

\* Date.now() read by forceEndBattle: the time of the last frame while the interval paces
\* the clock; once the phase is terminal no interval runs and time may have passed
ForceTimes == IF IsTerminal(battleState.status) THEN {now, now + TICK_MS} ELSE {now}

\* the moments at which a call of forceEndBattle is explored: every ForcePeriodMs, and
\* between the last frame before the disengage time and the first frame after it
ForceMoment ==
  \/ Elapsed % ForcePeriodMs < TICK_MS
  \/ /\ ~IsTerminal(battleState.status)
     /\ Elapsed <= battleState.disengageTime
     /\ Elapsed + TICK_MS > battleState.disengageTime

\* forceEndBattle(), from the user interface
ForceEnd ==
  /\ battleState # NullBattle
  /\ ForceMoment
  /\ \E t \in ForceTimes :
       /\ battleState' = forceEndBattle(battleState, t)
       /\ now' = t
  /\ fresh' = FALSE
  /\ UNCHANGED <<snapshot, respawnEnabled, scenario, shots, staleTicks, killLog>>
  /\ UNCHANGED gvars
  /\ UNCHANGED cvars

Next == InitializeBattle \/ Tick \/ Resubscribe \/ ForceEnd

Spec == Init /\ [][Next]_vars

\* the old interval fires once more before the effect has cleared it
StaleTick ==
  /\ ~fresh
  /\ staleTicks < MaxStaleTicks
  /\ RunCallback
  /\ staleTicks' = staleTicks + 1

TickInHorizon ==
  /\ now + TICK_MS - scenario.start <= StaleHorizonMs
  /\ Tick

NextStale == InitializeBattle \/ TickInHorizon \/ StaleTick \/ Resubscribe \/ ForceEnd

InitStale == InitOn(StaleBattles)

SpecStale == InitStale /\ [][NextStale]_vars

\* ------------------------------------------------------------------------
\* Properties of the battle simulation
\* ------------------------------------------------------------------------
BattleOn == battleState # NullBattle

AllJets == allJetsOf(battleState)

JetOf(id) == AllJets[FindIdx({i \in DOMAIN AllJets : AllJets[i].id = id})]

ScriptKills == SelectSeq(battleState.scheduledEvents, IsDestroyEvent)

KillTargets == {ScriptKills[i].targetId : i \in DOMAIN ScriptKills}

WreckedIds == {AllJets[i].id : i \in {k \in DOMAIN AllJets : AllJets[k].isWrecked}}

WreckedOf(team) == Cardinality({i \in DOMAIN AllJets : AllJets[i].isWrecked /\ AllJets[i].team = team})

\* the phase became terminal through the clock, not through forceEndBattle
EndedByClock ==
  /\ IsTerminal(battleState.status)
  /\ battleState.endTime # Null
  /\ battleState.endTime[1] - battleState.startTime >= battleState.battleEndTime

NotForced == battleState.endTime = Null \/ EndedByClock

\* C1: Reconciliation guarantee. With respawn disabled and no force-end, once elapsed >=
\* E.timestamp + ToleranceMs the target of every scripted destroy event E is wrecked.
C1_Reconciliation ==
  (BattleOn /\ ~respawnEnabled /\ NotForced) =>
    \A i \in DOMAIN ScriptKills :
       Elapsed >= ScriptKills[i].timestamp + ToleranceMs => JetOf(ScriptKills[i].targetId).isWrecked

\* C2: No unscripted kill. An entity is wrecked only if the script holds a destroy event
\* whose target it is.
C2_NoUnscriptedKill ==
  BattleOn => WreckedIds \subseteq KillTargets

\* C3: End state matches the pre-computed results. When the phase becomes terminal through
\* the clock (respawn disabled), the wrecked entities are exactly the targets of the script's
\* destroy events, the wreck counts per team are results.destroyedAllied and
\* results.destroyedEnemy, and every executed destroy event has its target wrecked.
C3_EndStateMatchesResults ==
  (BattleOn /\ EndedByClock /\ ~respawnEnabled) =>
    /\ WreckedIds = KillTargets
    /\ WreckedOf("allied") = battleState.results.destroyedAllied
    /\ WreckedOf("enemy") = battleState.results.destroyedEnemy
    /\ \A i \in DOMAIN battleState.executedEvents :
         battleState.executedEvents[i].type = "destroy"
           => JetOf(battleState.executedEvents[i].targetId).isWrecked

\* C4: Execution bookkeeping. executedEvents holds each scheduled event at most once, also
\* when the update of a callback that ran on an outdated snapshot is appended.
C4_ExecutedOnce ==
  BattleOn =>
    \A i, k \in DOMAIN battleState.executedEvents :
       i # k => battleState.executedEvents[i] # battleState.executedEvents[k]

\* C5: No double-kill. With respawn disabled, kill code (missile detonation or kill shot)
\* wrecks each entity at most once in a battle.
C5_NoDoubleKill ==
  (BattleOn /\ ~respawnEnabled) => \A id \in DOMAIN killLog : killLog[id] <= 1

\* an entity has been wrecked by kill code, the flagged kill shot of another attacker is
\* pending and the target swap is handing target ids around
C5_Witness ==
  /\ BattleOn /\ ~respawnEnabled /\ swapSecond(now)
  /\ \E i, k \in DOMAIN AllJets :
       /\ AllJets[i].isWrecked /\ killLog[AllJets[i].id] = 1
       /\ AllJets[k].burstState.active /\ AllJets[k].burstState.isKillShot

\* C13: Idempotent termination. A forceEndBattle call made when status is already 'victory'
\* or 'defeat' changes nothing: status, results and endTime (and the rest of the battle
\* state) are the same after the call as before it.
C13_IdempotentTermination ==
  [][(BattleOn /\ IsTerminal(battleState.status)) => battleState' = battleState]_vars

PhaseRank(status) ==
  IF status = "active" THEN 1 ELSE IF status = "disengaging" THEN 2 ELSE 3

\* C14: Phase order. status only moves forward in the order active -> disengaging ->
\* {victory | defeat}, and a terminal status is absorbing: no step changes it, also not the
\* callback of an interval that closed over a snapshot whose status was still 'active' and
\* that runs after a forceEndBattle call.
C14_PhaseOrder ==
  [][(BattleOn /\ battleState' # NullBattle) =>
       /\ PhaseRank(battleState.status) <= PhaseRank(battleState'.status)
       /\ IsTerminal(battleState.status) => battleState'.status = battleState.status]_vars

\* C15: active -> disengaging. disengageTime is the smaller of (timestamp of the last destroy
\* event of the script + DISENGAGE_DELAY) and (BATTLE_DURATION - DISENGAGE_DELAY), the latter
\* when the script has no destroy event; status is 'disengaging' only after a tick with
\* elapsed > disengageTime, and no tick with elapsed > disengageTime leaves status 'active'.
C15_DisengageTrigger ==
  BattleOn =>
    LET stamps == {ScriptKills[i].timestamp : i \in DOMAIN ScriptKills}
        timeout == BATTLE_DURATION - DISENGAGE_DELAY
        dt == battleState.disengageTime
    IN /\ stamps = {} => dt = timeout
       /\ stamps # {} =>
            \E last \in stamps :
               /\ \A ts \in stamps : ts <= last
               /\ dt <= last + DISENGAGE_DELAY /\ dt <= timeout
               /\ dt = last + DISENGAGE_DELAY \/ dt = timeout
       /\ battleState.status = "disengaging" => Elapsed > dt
       /\ battleState.status = "active" => Elapsed <= dt

\* the tick that switched to 'disengaging' in a battle whose last kill comes so late that
\* the timeout decides the disengage time
C15_Witness ==
  /\ BattleOn
  /\ battleState.status = "disengaging"
  /\ ScriptKills # <<>>
  /\ battleState.disengageTime = BATTLE_DURATION - DISENGAGE_DELAY
  /\ Elapsed - TICK_MS <= battleState.disengageTime

\* C16: disengaging -> terminal. battleEndTime = disengageTime + DISENGAGE_DURATION; a tick
\* makes the status terminal exactly when its elapsed >= battleEndTime; the terminal status
\* is 'victory' if results.victory and 'defeat' otherwise, and that tick changes nothing
\* but status and endTime (no entity, projectile or executed-event update).
C16_TerminalTransition ==
  [][(BattleOn /\ battleState' # NullBattle) =>
       /\ battleState.battleEndTime = battleState.disengageTime + DISENGAGE_DURATION
       /\ (~IsTerminal(battleState.status) /\ now' # now) =>
            IF now' - battleState.startTime >= battleState.battleEndTime
            THEN battleState' =
                   [battleState EXCEPT
                      !.status = IF battleState.results.victory THEN "victory" ELSE "defeat",
                      !.endTime = <<now'>>]
            ELSE ~IsTerminal(battleState'.status)]_vars

\* a battle whose results say defeat has been ended by the clock
C16_Witness ==
  /\ BattleOn
  /\ EndedByClock
  /\ ~battleState.results.victory
  /\ battleState.status = "defeat"
  /\ battleState.endTime[1] - battleState.startTime < battleState.battleEndTime + TICK_MS

\* a run of the interval callback on a battle that is not over
TickStep ==
  /\ BattleOn
  /\ ~IsTerminal(battleState.status)
  /\ now' # now
  /\ battleState' # NullBattle

\* what a tick leaves behind when event execution, the entity update and the projectile
\* advancement have run in this order: every event due at the tick is marked executed, a
\* wreck that is outside the world has been marked for cleanup at the tick's time, and
\* every missile in flight, also one launched by this tick, has been advanced
FrameDone ==
  /\ \A i \in DOMAIN battleState.scheduledEvents :
        battleState.scheduledEvents[i].timestamp <= now' - battleState.startTime
          => Includes(battleState'.executedEvents, battleState.scheduledEvents[i])
  /\ \A i \in DOMAIN AllJets :
        (AllJets[i].isWrecked /\ leftWorld(AllJets[i], now'))
          => \/ allJetsOf(battleState')[i].destroyedAt = <<now' - RESPAWN_TIME - 1>>
             \/ respawnEnabled /\ ~allJetsOf(battleState')[i].isWrecked
  /\ \A i \in DOMAIN battleState'.missiles :
        battleState'.missiles[i].life <= MISSILE_LIFESPAN - DELTA_MS

\* C17 (as stated): Order inside one tick. Scheduled-event execution, then the entity update,
\* then projectile advancement, then the phase-transition checks: every tick, also the one
\* whose phase check makes the status terminal, has run its frame before that check.
C17_TickOrder == [][TickStep => FrameDone]_vars

\* C17 (amended): the phase-transition checks come first and a tick with
\* elapsed >= battleEndTime ends there, without entity, projectile or executed-event update;
\* every other tick runs scheduled-event execution, then the entity update, then projectile
\* advancement.
C17_TickOrderAmended ==
  [][TickStep =>
       IF now' - battleState.startTime >= battleState.battleEndTime
       THEN /\ allJetsOf(battleState') = AllJets
            /\ battleState'.executedEvents = battleState.executedEvents
            /\ battleState'.missiles = battleState.missiles
            /\ battleState'.tracers = battleState.tracers
            /\ battleState'.flares = battleState.flares
       ELSE FrameDone]_vars

\* the tick that executed a due destroy event has launched the forced missile and advanced it
C17_Witness ==
  /\ BattleOn
  /\ ~IsTerminal(battleState.status)
  /\ \E i \in DOMAIN battleState.missiles, k \in DOMAIN battleState.executedEvents :
       /\ battleState.missiles[i].forced
       /\ battleState.missiles[i].life = MISSILE_LIFESPAN - DELTA_MS
       /\ battleState.missiles[i].targetId = battleState.executedEvents[k].targetId
       /\ battleState.executedEvents[k].timestamp > Elapsed - TICK_MS

\* C18: Script and results are frozen. After initializeBattle every tick and every
\* forceEndBattle call leave scheduledEvents (events and order) and results as they were
\* handed over; consumption is recorded only in executedEvents, whose entries are events of
\* the script; the results of a terminal phase are the generator's (or the supplied) results.
C18_ScriptFrozen ==
  BattleOn =>
    /\ battleState.scheduledEvents = scenario.outcome.events
    /\ battleState.results = scenario.outcome.results
    /\ \A i \in DOMAIN battleState.executedEvents :
         Includes(scenario.outcome.events, battleState.executedEvents[i])

\* a battle with defeat results was force-ended after its script had been consumed
C18_Witness ==
  /\ BattleOn
  /\ IsTerminal(battleState.status)
  /\ ~EndedByClock
  /\ ~scenario.outcome.results.victory
  /\ Len(battleState.executedEvents) = Len(battleState.scheduledEvents)
  /\ battleState.results = scenario.outcome.results

\* C19: With the respawn flag disabled wrecking is one-directional. An entity that is wrecked
\* in the snapshot of some tick is wrecked in every later snapshot of the battle, also after
\* battleEndTime and after a forced end, keeps a non-null destroyedAt and has no field reset
\* (only destroyedAt may be rewritten, by the cleanup mark).
C19_WreckedStaysWrecked ==
  [][(BattleOn /\ ~respawnEnabled /\ battleState' # NullBattle) =>
       \A i \in DOMAIN AllJets :
          AllJets[i].isWrecked =>
            /\ allJetsOf(battleState')[i].isWrecked
            /\ allJetsOf(battleState')[i].destroyedAt # Null
            /\ allJetsOf(battleState')[i] =
                 [AllJets[i] EXCEPT !.destroyedAt = allJetsOf(battleState')[i].destroyedAt]]_vars

\* respawn disabled, the battle is over and a wreck that left the world and was marked for
\* cleanup is still a wreck
C19_Witness ==
  /\ BattleOn
  /\ ~respawnEnabled
  /\ IsTerminal(battleState.status)
  /\ \E i \in DOMAIN AllJets :
       /\ AllJets[i].isWrecked
       /\ AllJets[i].destroyedAt # Null
       /\ AllJets[i].destroyedAt[1] < battleState.startTime

\* C20 (as stated): With the respawn flag enabled a wrecked entity is reset only by a tick at
\* which more than RESPAWN_TIME has passed since it was wrecked, never earlier, and not as a
\* consequence of the wreckage leaving the world boundary. An entity of the battle was
\* wrecked no earlier than startTime, so a reset needs more than RESPAWN_TIME since startTime.
C20_RespawnOnlyAfterDelay ==
  [][(BattleOn /\ battleState' # NullBattle) =>
       \A i \in DOMAIN AllJets :
          (AllJets[i].isWrecked /\ ~allJetsOf(battleState')[i].isWrecked)
            => now' - battleState.startTime > RESPAWN_TIME]_vars

\* C20 (amended): a wrecked entity is reset (isWrecked and isDestroyed false, destroyedAt
\* null, burst and flare state cleared) only with the respawn flag enabled and only by a tick
\* at which more than RESPAWN_TIME has passed since its destroyedAt or at which the wreckage
\* is outside the world boundary (the tick marks it for cleanup by setting destroyedAt
\* RESPAWN_TIME + 1 ms back, and the respawn pass of the same tick resets it).
C20_RespawnRule ==
  [][(BattleOn /\ battleState' # NullBattle) =>
       \A i \in DOMAIN AllJets :
          (AllJets[i].isWrecked /\ ~allJetsOf(battleState')[i].isWrecked) =>
            /\ respawnEnabled
            /\ \/ now' - AllJets[i].destroyedAt[1] > RESPAWN_TIME
               \/ leftWorld(AllJets[i], now')
            /\ ~allJetsOf(battleState')[i].isDestroyed
            /\ allJetsOf(battleState')[i].destroyedAt = Null
            /\ allJetsOf(battleState')[i].burstState = NoBurst
            /\ allJetsOf(battleState')[i].flareState = NoFlare]_vars

\* respawn enabled: an entity that kill code wrecked flies again
C20_Witness ==
  /\ BattleOn
  /\ respawnEnabled
  /\ \E i \in DOMAIN AllJets :
       /\ killLog[AllJets[i].id] >= 1
       /\ ~AllJets[i].isWrecked
       /\ AllJets[i].destroyedAt = Null
  /\ Elapsed >= WreckFallMs

\* a tick that runs its frame: the battle is not over before it nor by its phase check
FrameStep ==
  /\ TickStep
  /\ now' - battleState.startTime < battleState.battleEndTime

\* the missiles of the next state launched from a jet's firing logic in this tick
Launched ==
  {i \in DOMAIN battleState'.missiles :
     /\ ~battleState'.missiles[i].forced
     /\ battleState'.missiles[i].life = MISSILE_LIFESPAN - DELTA_MS}

\* jet k goes from its second burst into its last one in this tick
EntersLastBurst(k) ==
  /\ AllJets[k].burstState.active
  /\ AllJets[k].burstState.burstsLeft = 2
  /\ allJetsOf(battleState')[k].burstState.burstsLeft = 1

\* the destroy event e of the script is open for attacker -> target at this tick: not in
\* executedEvents and not consumed by the deadline loop of the tick
OpenKill(e, attackerId, targetId) ==
  /\ e.type = "destroy"
  /\ e.attackerId = attackerId
  /\ e.targetId = targetId
  /\ ~Includes(battleState.executedEvents, e)
  /\ e.timestamp > now' - battleState.startTime

HasOpenKill(attackerId, targetId) ==
  \E i \in DOMAIN battleState.scheduledEvents :
     OpenKill(battleState.scheduledEvents[i], attackerId, targetId)

\* the open events for attacker -> target are in the executed set after the tick
OpenKillMarked(attackerId, targetId) ==
  \A i \in DOMAIN battleState.scheduledEvents :
     OpenKill(battleState.scheduledEvents[i], attackerId, targetId)
       => Includes(battleState'.executedEvents, battleState.scheduledEvents[i])

\* lethality was granted for event e in this tick
GrantedFor(e) ==
  \/ \E i \in Launched :
        /\ battleState'.missiles[i].willDetonate
        /\ battleState'.missiles[i].firedBy = e.attackerId
        /\ battleState'.missiles[i].targetId = e.targetId
  \/ \E k \in DOMAIN AllJets :
        /\ EntersLastBurst(k)
        /\ allJetsOf(battleState')[k].burstState.isKillShot
        /\ AllJets[k].id = e.attackerId
        /\ allJetsOf(battleState')[k].targetId = e.targetId

\* C21: Natural-kill gating. A missile launched by a jet gets willDetonate = TRUE, and a
\* burst entering its last burst gets isKillShot = TRUE, exactly when the script holds a
\* destroy event from this jet on its current target that is neither executed nor consumed
\* earlier in the tick; that event is then marked executed, and an event that is neither
\* due nor granted is not marked.
C21_NaturalKillGating ==
  [][FrameStep =>
       /\ \A i \in Launched :
             LET m == battleState'.missiles[i]
             IN /\ m.willDetonate <=> HasOpenKill(m.firedBy, m.targetId)
                /\ m.willDetonate => OpenKillMarked(m.firedBy, m.targetId)
       /\ \A k \in DOMAIN AllJets :
             EntersLastBurst(k) =>
               LET j == allJetsOf(battleState')[k]
               IN /\ j.burstState.isKillShot <=> HasOpenKill(j.id, j.targetId)
                  /\ j.burstState.isKillShot => OpenKillMarked(j.id, j.targetId)
       /\ \A i \in DOMAIN battleState.scheduledEvents :
             LET e == battleState.scheduledEvents[i]
             IN (/\ ~Includes(battleState.executedEvents, e)
                 /\ Includes(battleState'.executedEvents, e)
                 /\ e.timestamp > now' - battleState.startTime)
                => GrantedFor(e)]_vars

\* a jet has just launched a lethal missile for an event whose deadline is still ahead;
\* the event is in the executed set
C21_Witness ==
  /\ BattleOn
  /\ \E i \in DOMAIN battleState.missiles :
        /\ ~battleState.missiles[i].forced
        /\ battleState.missiles[i].willDetonate
        /\ battleState.missiles[i].life = MISSILE_LIFESPAN - DELTA_MS
        /\ \E k \in DOMAIN battleState.executedEvents :
              /\ battleState.executedEvents[k].attackerId = battleState.missiles[i].firedBy
              /\ battleState.executedEvents[k].targetId = battleState.missiles[i].targetId
              /\ battleState.executedEvents[k].timestamp > Elapsed

\* jet k is flying before the tick and wrecked after it
NewlyWrecked(k) == ~AllJets[k].isWrecked /\ allJetsOf(battleState')[k].isWrecked

\* something lethal reached jet k in this tick: a missile with willDetonate inside the
\* proximity radius, or the round of a burst flagged isKillShot
LethalCause(k) ==
  \/ \E i \in DOMAIN battleState.missiles :
        /\ battleState.missiles[i].willDetonate
        /\ battleState.missiles[i].targetId = AllJets[k].id
        /\ MissileInRange(AllJets, battleState.missiles[i])
  \/ \E a \in DOMAIN AllJets :
        /\ AllJets[a].burstState.active
        /\ AllJets[a].burstState.isKillShot
        /\ allJetsOf(battleState')[a].targetId = AllJets[k].id

Duds(missiles) == {i \in DOMAIN missiles : ~missiles[i].willDetonate}

\* the missile the dud m is after one more frame
DudFliesOn(m, n) ==
  /\ ~n.willDetonate
  /\ n.forced = m.forced
  /\ n.firedBy = m.firedBy
  /\ n.life = m.life - DELTA_MS
  /\ n.targetId = IF MissileInRange(AllJets, m) THEN NoId ELSE m.targetId

\* C22: Duds never kill. A missile with willDetonate = FALSE wrecks nothing: an entity is
\* wrecked in a tick only by a detonating missile in range or by a kill shot. Inside the
\* proximity radius of its living target the dud loses its targetId, it stays in the
\* missile list and is removed only when its life has run out.
C22_DudsNeverKill ==
  [][FrameStep =>
       /\ \A k \in DOMAIN AllJets : NewlyWrecked(k) => LethalCause(k)
       /\ \A i \in Duds(battleState.missiles) :
             battleState.missiles[i].life > DELTA_MS
               => \E j \in Duds(battleState'.missiles) :
                     DudFliesOn(battleState.missiles[i], battleState'.missiles[j])
       /\ Cardinality({i \in Duds(battleState.missiles) : battleState.missiles[i].life > DELTA_MS})
            = Cardinality({j \in Duds(battleState'.missiles) :
                             battleState'.missiles[j].life < MISSILE_LIFESPAN - DELTA_MS})]_vars

\* a dud has passed its target: it has no targetId any more, it is still in the list and
\* every entity of the battle is flying
C22_Witness ==
  /\ BattleOn
  /\ \E i \in DOMAIN battleState.missiles :
        /\ ~battleState.missiles[i].willDetonate
        /\ battleState.missiles[i].targetId = NoId
        /\ battleState.missiles[i].dist < MISSILE_PROXIMITY_DETONATION_RANGE
  /\ \A k \in DOMAIN AllJets : ~AllJets[k].isWrecked

\* the burst of jet a, flagged isKillShot, fired its round in this tick
FiredKillShot(a) ==
  /\ ~AllJets[a].isWrecked
  /\ AllJets[a].burstState.active
  /\ AllJets[a].burstState.isKillShot
  /\ ~allJetsOf(battleState')[a].isWrecked
  /\ ~allJetsOf(battleState')[a].burstState.active
  /\ ~allJetsOf(battleState')[a].burstState.isKillShot

\* C29: A kill shot lands whatever the teams. When a burst flagged isKillShot fires its
\* round in a tick (the attacker's target being alive), that target is wrecked with a
\* destroyedAt in the state this tick produces, for an enemy attacker on an allied target as
\* for an allied attacker on an enemy target.
C29_KillShotLands ==
  [][FrameStep =>
       \A a \in DOMAIN AllJets :
          FiredKillShot(a) =>
            \A k \in DOMAIN AllJets :
               AllJets[k].id = allJetsOf(battleState')[a].targetId
                 => /\ allJetsOf(battleState')[k].isWrecked
                    /\ allJetsOf(battleState')[k].destroyedAt # Null]_vars

\* the destroy events of the script for target id, or for attacker -> target, lie at most
\* the lookahead window after the elapsed time of this tick
KillsOnAreNear(targetId) ==
  \A i \in DOMAIN battleState.scheduledEvents :
     (battleState.scheduledEvents[i].type = "destroy"
        /\ battleState.scheduledEvents[i].targetId = targetId)
       => battleState.scheduledEvents[i].timestamp
            <= now' - battleState.startTime + imminentEventWindow

OpenKillsAreNear(attackerId, targetId) ==
  \A i \in DOMAIN battleState.scheduledEvents :
     OpenKill(battleState.scheduledEvents[i], attackerId, targetId)
       => battleState.scheduledEvents[i].timestamp
            <= now' - battleState.startTime + imminentEventWindow

\* C30: Kills land at about their scripted time. No entity becomes wrecked more than
\* 5000 ms before the timestamp of the destroy event that names it as target: a missile
\* launched by a jet or a burst entering its last burst is made lethal only when the
\* timestamp of the matching event is at most 5000 ms after the elapsed time.
C30_KillsNearScriptedTime ==
  [][FrameStep =>
       /\ \A k \in DOMAIN AllJets : NewlyWrecked(k) => KillsOnAreNear(AllJets[k].id)
       /\ \A i \in Launched :
             battleState'.missiles[i].willDetonate
               => OpenKillsAreNear(battleState'.missiles[i].firedBy,
                                   battleState'.missiles[i].targetId)
       /\ \A k \in DOMAIN AllJets :
             (EntersLastBurst(k) /\ allJetsOf(battleState')[k].burstState.isKillShot)
               => OpenKillsAreNear(AllJets[k].id, allJetsOf(battleState')[k].targetId)]_vars

\* an enemy squad leader is flying before the tick and wrecked after it
LeaderFalls(k) ==
  /\ AllJets[k].team = "enemy"
  /\ AllJets[k].aiState = "attacking"
  /\ NewlyWrecked(k)

\* the wingmen of leader k that are alive after the tick
LivingWingmen(k) ==
  {w \in DOMAIN AllJets :
     AllJets[w].partnerId = AllJets[k].id /\ IsLive(allJetsOf(battleState')[w])}

\* wingman n leads the squad of the fallen leader k after the tick
LeadsAfter(k, n) ==
  /\ allJetsOf(battleState')[n].aiState = "attacking"
  /\ allJetsOf(battleState')[n].partnerId = NoId
  /\ \A w \in LivingWingmen(k) \ {n} :
        allJetsOf(battleState')[w].partnerId = AllJets[n].id

\* C31: Leader succession happens on every leader death. After a tick in which an enemy
\* leader with a living wingman becomes wrecked, by a missile detonation or by a kill-shot
\* burst, one of these wingmen is attacking with partnerId null, every other living wingman
\* of the fallen leader has the new leader as partner, and none keeps the wreck as partner.
C31_LeaderSuccession ==
  [][FrameStep =>
       \A k \in DOMAIN AllJets :
          (LeaderFalls(k) /\ LivingWingmen(k) # {}) =>
            /\ \E n \in LivingWingmen(k) : LeadsAfter(k, n)
            /\ \A w \in LivingWingmen(k) :
                  allJetsOf(battleState')[w].partnerId # AllJets[k].id]_vars

\* wingman n of leader k is promoted in this tick
Promoted(k, n) ==
  /\ AllJets[n].partnerId = AllJets[k].id
  /\ AllJets[n].aiState = "following"
  /\ allJetsOf(battleState')[n].aiState = "attacking"

\* C32: The promoted leader inherits the target. When a wingman is promoted because its
\* leader was wrecked, the targetId of the new leader after the promotion is the targetId
\* the fallen leader had when it was wrecked.
C32_TargetInherited ==
  [][FrameStep =>
       \A k \in DOMAIN AllJets, n \in DOMAIN AllJets :
          (LeaderFalls(k) /\ Promoted(k, n))
            => allJetsOf(battleState')[n].targetId = AllJets[k].targetId]_vars

\* the destroy events of the script with attacker id that are unexecuted before the tick and
\* lie inside the lookahead window after the elapsed time of the tick
UpcomingKills(id) ==
  {i \in DOMAIN battleState.scheduledEvents :
     LET e == battleState.scheduledEvents[i]
     IN /\ e.type = "destroy"
        /\ e.attackerId = id
        /\ ~Includes(battleState.executedEvents, e)
        /\ e.timestamp > now' - battleState.startTime
        /\ e.timestamp <= now' - battleState.startTime + CINEMATIC_WINDOW}

\* entity k is the target of an upcoming kill of some entity
UpcomingVictim(k) ==
  \E a \in DOMAIN AllJets :
     \E i \in UpcomingKills(AllJets[a].id) :
        battleState.scheduledEvents[i].targetId = AllJets[k].id

\* C33: Lookahead forcing. After each tick in the active phase every live entity J, of
\* either team and role, that is the attacker of an unexecuted destroy event E inside the
\* lookahead window has targetId = cinematicKillTargetId = E.targetId and the target of E
\* has isTargetOfCinematicKill; an entity without such an event has no cinematicKillTargetId
\* and an entity that is the target of none has isTargetOfCinematicKill = FALSE.
C33_LookaheadForcing ==
  [][(FrameStep /\ battleState.status = "active" /\ battleState'.status = "active") =>
       \A k \in DOMAIN AllJets :
          LET j == allJetsOf(battleState')[k]
          IN /\ (IsLive(j) /\ UpcomingKills(j.id) # {}) =>
                  LET e == battleState.scheduledEvents[MinOf(UpcomingKills(j.id))]
                  IN /\ j.targetId = e.targetId
                     /\ j.cinematicKillTargetId = e.targetId
                     /\ \A v \in DOMAIN AllJets :
                           AllJets[v].id = e.targetId
                             => allJetsOf(battleState')[v].isTargetOfCinematicKill
             /\ UpcomingKills(j.id) = {} => j.cinematicKillTargetId = NoId
             /\ ~UpcomingVictim(k) => ~j.isTargetOfCinematicKill]_vars

\* the missiles of the next state created in this tick, by a jet or by the deadline loop
Created == {i \in DOMAIN battleState'.missiles : battleState'.missiles[i].life = MISSILE_LIFESPAN - DELTA_MS}

\* entity k starts a flare deployment in this tick: six flares, of which the entity's own
\* update may already have released the first pair
StartsFlares(k) ==
  /\ allJetsOf(battleState')[k].flareState.deploying
  /\ allJetsOf(battleState')[k].flareState.flaresLeft \in {FLARES_TO_DEPLOY, FLARES_TO_DEPLOY - 2}

\* C34: Flares answer every missile. Whenever a missile is created in a tick, launched by
\* a jet's weapon release or force-launched by deadline enforcement, with a living entity as
\* its target that is not already deploying, the entity starts a flare deployment in that
\* tick (deploying, FLARES_TO_DEPLOY flares).
C34_FlaresAnswerMissiles ==
  [][FrameStep =>
       \A i \in Created, k \in DOMAIN AllJets :
          (/\ AllJets[k].id = battleState'.missiles[i].targetId
           /\ IsLive(AllJets[k])
           /\ IsLive(allJetsOf(battleState')[k])
           /\ ~AllJets[k].flareState.deploying)
            => StartsFlares(k)]_vars

\* ------------------------------------------------------------------------
\* Battles whose script holds a destroy event after the timeout disengage time
\* ------------------------------------------------------------------------
\* generateBattleEvents stamps events up to BATTLE_DURATION = 30000 ms
ScriptTimeoutKill == <<Kill(29000, "enemy-0", "allied-0")>>

LateBattles == { LostBattle(ScriptTimeoutKill, 0, FALSE, {}) }

InitLate == InitOn(LateBattles)

SpecLate == InitLate /\ [][Next]_vars

\* the tracers of the next state fired in this tick
Fired == {i \in DOMAIN battleState'.tracers : battleState'.tracers[i] = TRACER_LIFESPAN - DELTA_MS}

\* C35: No fighting once disengaging. While the status is 'disengaging' or terminal no
\* tracer and no missile, launched by a jet or forced, is added and no entity goes from not
\* wrecked to wrecked: every scripted destroy event is resolved before the phase leaves
\* 'active'.
C35_NoFightingAfterActive ==
  [][(BattleOn /\ battleState.status # "active" /\ battleState' # NullBattle) =>
       /\ Fired = {}
       /\ Created = {}
       /\ \A k \in DOMAIN AllJets : ~NewlyWrecked(k)]_vars

\* ------------------------------------------------------------------------
\* The battle under a clock that advances and an interval that keeps firing
\* ------------------------------------------------------------------------
\* the step of Tick seen at the clock: an interval is set up and its period passes
IntervalFires ==
  /\ fresh
  /\ snapshot # NullBattle
  /\ now' = now + TICK_MS

\* the component calls initializeBattle on mount, React re-runs the effect after every
\* state update, setInterval fires every interval that is set up
LiveBattles ==
  { Battle(ScriptEarlyKill, 0, TRUE, {"allied-0"}),
    LostBattle(ScriptNoKill, 0, FALSE, {}),
    LostBattle(ScriptLastKill, 0, FALSE, {}) }

InitLive == InitOn(LiveBattles)

SpecLive ==
  /\ InitLive
  /\ [][Next]_vars
  /\ WF_vars(InitializeBattle)
  /\ WF_vars(Resubscribe)
  /\ WF_now(IntervalFires)

\* C37: Termination. With ticks that keep firing and a clock that advances every initialized
\* battle reaches 'victory' or 'defeat'; a tick makes the status terminal exactly when its
\* elapsed >= battleEndTime, which is at most BATTLE_DURATION - DISENGAGE_DELAY +
\* DISENGAGE_DURATION for every script, with the respawn flag on or off; once the terminal
\* status is rendered no interval exists and no entity, projectile or event changes.
C37_Termination ==
  /\ <>(BattleOn /\ IsTerminal(battleState.status))
  /\ [](BattleOn =>
          /\ battleState.battleEndTime
               <= BATTLE_DURATION - DISENGAGE_DELAY + DISENGAGE_DURATION
          /\ (IsTerminal(battleState.status) /\ fresh) => snapshot = NullBattle)
  /\ [][TickStep =>
          (IsTerminal(battleState'.status)
             <=> now' - battleState.startTime >= battleState.battleEndTime)]_vars
  /\ [][(BattleOn /\ IsTerminal(battleState.status)) =>
          battleState' = [battleState EXCEPT !.endTime = battleState'.endTime]]_vars

\* a battle with the respawn flag on was ended by the clock, at the first tick at or after
\* battleEndTime, and the effect has run again without setting up an interval
C37_Witness ==
  /\ BattleOn
  /\ respawnEnabled
  /\ EndedByClock
  /\ battleState.endTime[1] - battleState.startTime < battleState.battleEndTime + TICK_MS
  /\ fresh
  /\ snapshot = NullBattle
  /\ \E k \in DOMAIN AllJets : killLog[AllJets[k].id] >= 1

\* ========================================================================
\* initializeBattle with and without a pre-computed outcome
\* ========================================================================
\* mutant: the script is generated again although an outcome was handed in
chosenOutcome_regenerated(reuse, preCalculatedOutcome, calculated) == calculated

\* preCalculatedOutcome ? preCalculatedOutcome : calculateBattleOutcome(...)
chosenOutcome(reuse, preCalculatedOutcome, calculated) ==
  IF reuse THEN preCalculatedOutcome ELSE calculated

\* the hook's arguments: reuse says that preCalculatedOutcome is not null
ReuseBattle(reuse, outcome, tactic) ==
  [squadron |-> BattleSquadron, mission |-> BattleMission, outcome |-> outcome,
   start |-> 0, respawn |-> FALSE, aimers |-> {}, reuse |-> reuse, tactic |-> tactic]

\* outcomes pre-computed with tactic 'aggressive' (a victory) and a pre-computed defeat,
\* each handed to a hook called with either tactic; and the hook without one
ReuseBattles ==
  {ReuseBattle(TRUE, o, tactic) :
     o \in {OutcomeOf(ScriptAlliedKill), LostOutcomeOf(ScriptEnemyKill)}, tactic \in Tactics}
  \cup {ReuseBattle(FALSE, NoOutcome, tactic) : tactic \in Tactics}

InitReuse == InitOn(ReuseBattles)

\* initializeBattle without a pre-computed outcome: the call of calculateBattleOutcome
CalculateOutcome ==
  /\ battleState = NullBattle
  /\ ~scenario.reuse
  /\ gPc = "idle"
  /\ gPc' = "loop"
  /\ gSquadron' = scenario.squadron
  /\ gMission' = scenario.mission
  /\ gTactic' = scenario.tactic
  /\ gTime' = 0
  /\ gAllied' = MkAlliedEntities(scenario.squadron)
  /\ gEnemy' = MkEnemyEntities(scenario.mission)
  /\ gEvents' = <<>>
  /\ gGated' = {}
  /\ gOut' = NoOutcome
  /\ UNCHANGED bvars
  /\ UNCHANGED cvars

\* initializeBattle from the outcome it was given or the one just calculated
InitializeBattleReuse ==
  /\ battleState = NullBattle
  /\ scenario.reuse \/ gPc = "done"
  /\ \E rCool \in {0} :
       battleState' = initializeBattle(scenario.squadron, scenario.mission,
                                       chosenOutcome(scenario.reuse, scenario.outcome, gOut),
                                       now, rCool)
  /\ fresh' = FALSE
  /\ UNCHANGED <<snapshot, now, respawnEnabled, scenario, shots, staleTicks, killLog>>
  /\ UNCHANGED gvars
  /\ UNCHANGED cvars

\* the generator runs inside initializeBattle, before the battle exists
CalculateStep ==
  /\ battleState = NullBattle
  /\ GenNext

\* a battle from a freshly generated script is followed for ReuseHorizonMs
TickReuse ==
  /\ scenario.reuse \/ now + TICK_MS - scenario.start <= ReuseHorizonMs
  /\ Tick

NextReuse ==
  CalculateOutcome \/ CalculateStep \/ InitializeBattleReuse \/ TickReuse \/ Resubscribe \/ ForceEnd

SpecReuse == InitReuse /\ [][NextReuse]_vars

\* C23: Reuse of a pre-computed outcome. A battle initialised with a preCalculatedOutcome
\* has exactly that pair's events as scheduledEvents and that pair's results,
\* calculateBattleOutcome has not run, and whatever tactic the hook was called with the
\* terminal status is the one the pair's results.victory gives.
C23_ReuseOfOutcome ==
  (BattleOn /\ scenario.reuse) =>
     /\ battleState.scheduledEvents = scenario.outcome.events
     /\ battleState.results = scenario.outcome.results
     /\ gPc = "idle" /\ gOut = NoOutcome /\ gEvents = <<>>
     /\ IsTerminal(battleState.status) =>
          battleState.status = IF scenario.outcome.results.victory THEN "victory" ELSE "defeat"

\* a battle reusing a victory pre-computed with 'aggressive' ran to its end by the clock in
\* a hook called with 'defensive', the tactic with which this roster would lose
C23_Witness ==
  /\ BattleOn
  /\ scenario.reuse
  /\ scenario.tactic = "defensive"
  /\ ~alliedWinsOf(scenario.squadron, scenario.mission, scenario.tactic)
  /\ alliedWinsOf(scenario.squadron, scenario.mission, "aggressive")
  /\ scenario.outcome.results.victory
  /\ battleState.status = "victory"
  /\ EndedByClock

\* ========================================================================
\* The second definition of useBattleSimulation (same file, from the second import block on):
\* the script is executed by the clock alone and weapons are visual effects
\* ========================================================================
\* enemies come in pairs: the even one attacks, the odd one follows it
MkEnemyJetsSecond(mission, rCool) ==
  [i \in 1..mission.enemyCount |->
     IF (i - 1) % 2 = 0
     THEN NewJet(EnemyId(i - 1), "enemy", "attacking",
                 IF i < mission.enemyCount THEN EnemyId(i) ELSE NoId, rCool)
     ELSE NewJet(EnemyId(i - 1), "enemy", "following", EnemyId(i - 2), rCool)]

initializeBattleSecond(squadron, mission, outcome, t, rCool) ==
  [status |-> "active", startTime |-> t, endTime |-> Null,
   alliedJets |-> MkAlliedJets(squadron, rCool),
   enemyJets |-> MkEnemyJetsSecond(mission, rCool),
   scheduledEvents |-> outcome.events, executedEvents |-> <<>>,
   tracers |-> <<>>, missiles |-> <<>>, flares |-> <<>>,
   results |-> outcome.results]

\* an event of eventsToExecute the forEach does not skip
IsDueSecond(prev, elapsed, e) ==
  /\ e.timestamp <= elapsed
  /\ ~\E k \in DOMAIN prev.executedEvents :
        /\ prev.executedEvents[k].timestamp = e.timestamp
        /\ prev.executedEvents[k].targetId = e.targetId

\* 1. SCRIPT EXECUTION: the entity is replaced by a copy when an event wrecks it or makes
\* it escape
IsCopiedSecond(prev, elapsed, j) ==
  \E k \in DOMAIN prev.scheduledEvents :
     LET e == prev.scheduledEvents[k]
     IN /\ IsDueSecond(prev, elapsed, e)
        /\ \/ e.type = "destroy" /\ e.targetId = j.id /\ ~j.isWrecked
           \/ e.type = "escape" /\ e.attackerId = j.id

executeEventsSecond(prev, elapsed, t, j) ==
  LET due(e) == IsDueSecond(prev, elapsed, e)
      killed == /\ ~j.isWrecked
                /\ \E k \in DOMAIN prev.scheduledEvents :
                      /\ due(prev.scheduledEvents[k])
                      /\ prev.scheduledEvents[k].type = "destroy"
                      /\ prev.scheduledEvents[k].targetId = j.id
      escapes == \E k \in DOMAIN prev.scheduledEvents :
                    /\ due(prev.scheduledEvents[k])
                    /\ prev.scheduledEvents[k].type = "escape"
                    /\ prev.scheduledEvents[k].attackerId = j.id
  IN [j EXCEPT !.isWrecked = @ \/ killed,
               !.destroyedAt = IF killed THEN <<t>> ELSE @,
               !.isEscaping = @ \/ escapes]

\* AI: the target of the next event of this jet within 5 s, else the current target while
\* it lives, else the closest living enemy (draw r)
targetSecond(jets, remaining, elapsed, r, j) ==
  LET next == FindIdx({k \in DOMAIN remaining :
                         /\ remaining[k].attackerId = j.id
                         /\ remaining[k].timestamp < elapsed + 5000})
      aimed == IF next # 0 /\ remaining[next].targetId # NoId
               THEN remaining[next].targetId ELSE j.targetId
      potentialTargets == SelectSeq(jets, LAMBDA p : p.team # j.team /\ IsLive(p))
  IN IF LiveIdx(jets, aimed) # 0 THEN aimed
     ELSE IF potentialTargets # <<>>
          THEN potentialTargets[RandIndex(r, Len(potentialTargets)) + 1].id
          ELSE aimed

\* the shots of an active burst
burstSecond(b) ==
  IF ~b.active \/ b.nextShotTimer - DELTA_MS > 0
  THEN [b EXCEPT !.nextShotTimer = IF b.active THEN @ - DELTA_MS ELSE @]
  ELSE IF b.tracersLeftInBurst - 1 > 0
       THEN [b EXCEPT !.tracersLeftInBurst = @ - 1, !.nextShotTimer = TIME_BETWEEN_TRACERS]
       ELSE IF b.burstsLeft - 1 <= 0
            THEN [b EXCEPT !.tracersLeftInBurst = @ - 1, !.burstsLeft = @ - 1,
                           !.nextShotTimer = @ - DELTA_MS, !.active = FALSE]
            ELSE [b EXCEPT !.tracersLeftInBurst = TRACERS_PER_BURST, !.burstsLeft = @ - 1,
                           !.nextShotTimer = TIME_BETWEEN_BURSTS]

\* 2. ACTING, one entity of allJets.map; inp.far: the target is beyond WEAPON_RANGE_THRESHOLD
actSecond(jets, remaining, elapsed, inp, j) ==
  IF j.isWrecked \/ j.isDestroyed THEN j
  ELSE LET tid == targetSecond(jets, remaining, elapsed, inp.near, j)
           fires == /\ LiveIdx(jets, tid) # 0
                    /\ ~j.burstState.active
                    /\ j.fireCooldown - DELTA_MS <= 0
           started == IF fires /\ ~inp.far
                      THEN [active |-> TRUE, burstsLeft |-> BURST_COUNT,
                            tracersLeftInBurst |-> TRACERS_PER_BURST, nextShotTimer |-> 0,
                            isKillShot |-> FALSE]
                      ELSE j.burstState
       IN [j EXCEPT !.targetId = tid,
                    !.fireCooldown = IF fires THEN FIRING_COOLDOWN + inp.rCool
                                     ELSE @ - DELTA_MS,
                    !.burstState = burstSecond(started)]

\* the entity launched a missile in this frame
LaunchedSecond(before, after) ==
  /\ ~before.isWrecked
  /\ after.fireCooldown > before.fireCooldown
  /\ after.burstState = before.burstState

\* the entity shot a tracer in this frame
ShotSecond(before, after) ==
  /\ ~before.isWrecked
  /\ \/ ~before.burstState.active /\ after.burstState.active
     \/ before.burstState.active /\ before.burstState.nextShotTimer - DELTA_MS <= 0

\* the updater the interval callback passes to setBattleState, at Date.now() = t
tickSecond(prev, t, inp) ==
  LET elapsed == t - prev.startTime
      remainingEvents == SelectSeq(prev.scheduledEvents, LAMBDA e : e.timestamp > elapsed)
      old == allJetsOf(prev)
      allJets == [i \in DOMAIN old |-> executeEventsSecond(prev, elapsed, t, old[i])]
      updatedJets == [i \in DOMAIN old |-> actSecond(allJets, remainingEvents, elapsed, inp, allJets[i])]
      launchers == SelectSeq([i \in DOMAIN old |-> i],
                             LAMBDA i : LaunchedSecond(allJets[i], updatedJets[i]))
      shooters == SelectSeq([i \in DOMAIN old |-> i],
                            LAMBDA i : ShotSecond(allJets[i], updatedJets[i]))
      newMissiles == [k \in DOMAIN launchers |->
                        [targetId |-> updatedJets[launchers[k]].targetId,
                         life |-> MISSILE_LIFESPAN, willDetonate |-> FALSE]]
      newTracers == [k \in DOMAIN shooters |-> TRACER_LIFESPAN]
      \* the entities of prevState the map changed in place: those the script did not copy
      touched == [i \in DOMAIN old |->
                    IF IsCopiedSecond(prev, elapsed, old[i]) THEN old[i] ELSE updatedJets[i]]
  IN IF elapsed >= prev.results.duration
     THEN [prev EXCEPT !.status = IF prev.results.victory THEN "victory" ELSE "defeat",
                       !.endTime = <<t>>,
                       !.alliedJets = SelectSeq(touched, LAMBDA j : j.team = "allied"),
                       !.enemyJets = SelectSeq(touched, LAMBDA j : j.team = "enemy")]
     ELSE [prev EXCEPT
             !.alliedJets = SelectSeq(updatedJets, LAMBDA j : j.team = "allied"),
             !.enemyJets = SelectSeq(updatedJets, LAMBDA j : j.team = "enemy"),
             !.scheduledEvents = remainingEvents,
             !.executedEvents =
                @ \o SelectSeq(prev.scheduledEvents, LAMBDA e : IsDueSecond(prev, elapsed, e)),
             !.tracers = ageAll(@ \o newTracers),
             !.missiles = SelectSeq([k \in DOMAIN (@ \o newMissiles) |->
                                       [(@ \o newMissiles)[k] EXCEPT !.life = @ - DELTA_MS]],
                                    LAMBDA m : m.life > 0),
             !.flares = ageAll(@)]

\* status: 'victory', "Force a victory for debug purposes"
forceEndBattleSecond(prev, t) == [prev EXCEPT !.status = "victory", !.endTime = <<t>>]

\* a roster that wins, with an escape after two kills, and rosters that lose
ScriptKillsEscape ==
  <<Kill(5000, "allied-0", "enemy-0"), Kill(7200, "allied-1", "enemy-1"),
    Event((GEN_BATTLE_DURATION * 8) \div 10, "escape", "enemy-2", NoId, 0)>>

BattlesSecond ==
  { Battle(ScriptKillsEscape, 0, FALSE, {}),
    LostBattle(ScriptEnemyKill, 0, FALSE, {}),
    LostBattle(ScriptNoKill, 0, FALSE, {}) }

InitSecond == InitOn(BattlesSecond)

InitializeBattleSecond ==
  /\ battleState = NullBattle
  /\ \E rCool \in {0} :
       battleState' = initializeBattleSecond(scenario.squadron, scenario.mission,
                                             scenario.outcome, now, rCool)
  /\ UNCHANGED <<snapshot, now, respawnEnabled, scenario, fresh, shots, staleTicks, killLog>>
  /\ UNCHANGED gvars
  /\ UNCHANGED cvars

\* the draws of a frame: the first MaxShots weapon releases are explored at both ranges
FrameDrawsSecond ==
  [near : {0, 500}, rCool : {0}, far : IF shots < MaxShots THEN BOOLEAN ELSE {FALSE}]

\* one interval callback; on a state that is not active it only clears the interval
TickSecond ==
  /\ battleState # NullBattle
  /\ battleState.status = "active"
  /\ now' = now + TICK_MS
  /\ \E inp \in FrameDrawsSecond :
       /\ battleState' = tickSecond(battleState, now', inp)
       /\ shots' = IF battleState' # tickSecond(battleState, now', [inp EXCEPT !.far = FALSE])
                   THEN shots + 1 ELSE shots
  /\ killLog' = [id \in DOMAIN killLog |->
                   IF /\ \E i \in DOMAIN allJetsOf(battleState) :
                            /\ allJetsOf(battleState)[i].id = id
                            /\ ~allJetsOf(battleState)[i].isWrecked
                      /\ \E i \in DOMAIN allJetsOf(battleState') :
                            /\ allJetsOf(battleState')[i].id = id
                            /\ allJetsOf(battleState')[i].isWrecked
                   THEN killLog[id] + 1 ELSE killLog[id]]
  /\ UNCHANGED <<snapshot, respawnEnabled, scenario, fresh, staleTicks>>
  /\ UNCHANGED gvars
  /\ UNCHANGED cvars

\* forceEndBattle() of the second definition, explored every ForcePeriodMs
ForceEndSecond ==
  /\ battleState # NullBattle
  /\ Elapsed % ForcePeriodMs < TICK_MS
  /\ \E t \in ForceTimes :
       /\ battleState' = forceEndBattleSecond(battleState, t)
       /\ now' = t
  /\ UNCHANGED <<snapshot, respawnEnabled, scenario, fresh, shots, staleTicks, killLog>>
  /\ UNCHANGED gvars
  /\ UNCHANGED cvars

NextSecond == InitializeBattleSecond \/ TickSecond \/ ForceEndSecond

SpecSecond == InitSecond /\ [][NextSecond]_vars

\* C12: forceEndBattle on a battle that is not over sets status to 'victory' or 'defeat' as
\* results.victory says (never 'victory' when the results say defeat), sets endTime to the
\* current time and changes nothing else
C12_ForceEnd ==
  [][(/\ BattleOn
      /\ ~IsTerminal(battleState.status)
      /\ now' = now
      /\ battleState' # battleState)
     => battleState' = [battleState EXCEPT !.status = terminalStatus(battleState),
                                           !.endTime = <<now>>]]_vars

\* ------------------------------------------------------------------------
\* Battles whose script holds an escape event
\* ------------------------------------------------------------------------
\* the last enemy flees at 0.8 * BATTLE_DURATION, after two late kills
ScriptLateEscape ==
  <<Kill(18000, "allied-0", "enemy-0"), Kill(20000, "allied-1", "enemy-1"),
    Event((GEN_BATTLE_DURATION * 8) \div 10, "escape", "enemy-2", NoId, 0)>>

EscapeBattles == { Battle(ScriptLateEscape, 0, FALSE, {}) }

InitEscape == InitOn(EscapeBattles)

SpecEscape == InitEscape /\ [][Next]_vars

\* C36: Escape events take effect. Once the tick loop has executed a scripted escape event
\* the entity named by its attackerId has isEscaping = TRUE, in the snapshot of that tick
\* and in every later one.
C36_EscapeTakesEffect ==
  BattleOn =>
    \A i \in DOMAIN battleState.executedEvents :
       battleState.executedEvents[i].type = "escape"
         => JetOf(battleState.executedEvents[i].attackerId).isEscaping

\* ========================================================================
\* CombatSimulator: the reward effect on top of the battle hook
\* ========================================================================
\* difficultyMultiplier, in tenths
difficultyMultiplier(difficulty) ==
  CASE difficulty = "easy" -> 10
    [] difficulty = "medium" -> 15
    [] difficulty = "hard" -> 20
    [] difficulty = "extreme" -> 30

\* Math.floor((bonus + 0.5 * mission bonus if perfect) * multiplier + destroyedEnemy * 100)
calculateMissionScore(mission, results) ==
  LET perfect == results.victory /\ results.destroyedAllied = 0
      doubled == 2 * results.rewards.highScoreBonus
                   + (IF perfect THEN mission.rewards.highScoreBonus ELSE 0)
  IN (doubled * difficultyMultiplier(mission.difficulty)) \div 20 + results.destroyedEnemy * 100

\* Math.max(0, prev + amount)
addResource(prev, amount) == IF prev + amount > 0 THEN prev + amount ELSE 0

\* updateResources, updateHighScore, updatePilots and addCompletedMission as queued by the effect
applyRewards(prev, mission, results, t) ==
  [prev EXCEPT !.credits = addResource(@, results.rewards.credits),
               !.researchPoints = addResource(@, results.rewards.researchPoints),
               !.highScore = @ + calculateMissionScore(mission, results),
               !.missionsFlown = @ + 1,
               !.completed = @ + 1,
               !.lastCompletedTime = t]

\* mutant: the effect does not look at hasAppliedRewards
rewardsDue_unguarded(state, applied) ==
  /\ state # NullBattle
  /\ IsTerminal(state.status)

\* the two early returns of the reward effect
rewardsDue(state, applied) ==
  /\ state # NullBattle
  /\ ~applied
  /\ IsTerminal(state.status)

\* [battleState?.status, hasAppliedRewards]
rewardDeps ==
  <<IF battleState = NullBattle THEN "undefined" ELSE battleState.status, hasAppliedRewards>>

\* gameState.currentMission
RewardMission(difficulty) ==
  [enemyCount |-> BattleMission.enemyCount, enemyStats |-> BattleMission.enemyStats,
   rewards |-> BattleMission.rewards, difficulty |-> difficulty]

\* a perfect victory on two difficulties and a defeat
RewardBattles ==
  { [Battle(ScriptEarlyKill, 0, FALSE, {}) EXCEPT !.mission = RewardMission(d)] :
      d \in {"easy", "medium"} }
  \cup { [LostBattle(ScriptEnemyKill, 0, FALSE, {}) EXCEPT !.mission = RewardMission("hard")] }

InitRewards == InitOn(RewardBattles)

\* the effect 'Apply rewards and update pilot stats when battle ends', run after a render
\* in which one of its dependencies changed
RewardsEffect ==
  /\ effectDeps # rewardDeps
  /\ effectDeps' = rewardDeps
  /\ IF rewardsDue(battleState, hasAppliedRewards)
     THEN /\ gameState' = applyRewards(gameState, scenario.mission, battleState.results, now)
          /\ rewardCalls' = [f \in RewardUpdaters |-> rewardCalls[f] + 1]
          /\ hasAppliedRewards' = TRUE
     ELSE UNCHANGED <<gameState, rewardCalls, hasAppliedRewards>>
  /\ UNCHANGED gvars
  /\ UNCHANGED bvars

NextRewards == InitializeBattle \/ TickInHorizon \/ StaleTick \/ Resubscribe \/ ForceEnd \/ RewardsEffect

SpecRewards == InitRewards /\ [][NextRewards]_vars

\* C38: Rewards are applied once. For one battle the reward effect calls updateResources,
\* updateHighScore, updatePilots and addCompletedMission at most once each, only when the
\* status is 'victory' or 'defeat', and with amounts taken from battleState.results (the
\* score through calculateMissionScore), however often the status becomes terminal,
\* forceEndBattle is invoked or the effect runs again.
C38_RewardsOnce ==
  /\ [](/\ \A f \in RewardUpdaters : rewardCalls[f] <= 1
        /\ hasAppliedRewards <=> rewardCalls["updateResources"] = 1
        /\ ~hasAppliedRewards => gameState = EnteredGameState
        /\ hasAppliedRewards =>
             gameState = applyRewards(EnteredGameState, scenario.mission,
                                      scenario.outcome.results, gameState.lastCompletedTime))
  /\ [][rewardCalls' # rewardCalls =>
          /\ BattleOn
          /\ IsTerminal(battleState.status)
          /\ battleState.results = scenario.outcome.results]_vars

\* the rewards were applied while the status was terminal, a callback on an outdated
\* snapshot then moved the status back to disengaging, and the effect has run again for
\* the changed status without applying anything
C38_Witness ==
  /\ BattleOn
  /\ hasAppliedRewards
  /\ staleTicks >= 1
  /\ battleState.status = "disengaging"
  /\ effectDeps = rewardDeps
  /\ rewardCalls["updateResources"] = 1
  /\ gameState.credits = EnteredGameState.credits + scenario.outcome.results.rewards.credits

====
